---- MODULE Spec2Model ----
(***************************************************************************)
(* Model of the formula expression parser and evaluator of                 *)
(* loda-lang/formula-analyzer (src/formula/parser.py, src/formula/         *)
(* formula.py).                                                            *)
(*                                                                         *)
(* A Python str is a sequence of one-character strings.  A token           *)
(* (kind, value) is a record [kind, num, name]: num is the value of an INT *)
(* token, name the value of every other token.  An AST node is a record    *)
(* whose field "type" names the node class (NumNode, VarNode, UnaryNode,   *)
(* BinNode, FuncNode).  A Python call that raises is a record              *)
(* [ok |-> FALSE, exc |-> <exception class>, msg |-> <message>].  A number *)
(* is a record [kind, num, den]: kind is the Python type (int, Fraction,   *)
(* float), num / den the value in lowest terms with den > 0.               *)
(***************************************************************************)
EXTENDS Integers, Sequences, FiniteSets, TLC

VARIABLES expr, pc, formula, raised, n_arg, value, seq_id_arg, source_arg,
          threads,
          disk, call_args, before, previous, report, fetch_exc, invoked, written,
          iterator, handle, lines_read, current_id, yielded

\* the state of one call of parse_expression and of the evaluate calls of
\* its caller
parser_vars == <<expr, pc, formula, raised, n_arg, value, seq_id_arg, source_arg>>
\* the threads that evaluate the formula
thread_vars == <<threads>>

\* the file system prepare_data works on, its last call and what the call did
fetch_vars == <<disk, call_args, before, previous, report, fetch_exc, invoked, written>>

\* an iterator over a corpus file: which of the two it is, the lines of the
\* file, how many of them it has read, its current_id and the formulas it
\* has yielded
corpus_vars == <<iterator, handle, lines_read, current_id, yielded>>

vars == <<parser_vars, thread_vars, fetch_vars, corpus_vars>>

\* ------------------------------------------------------------------------
\* Bounds of the model
\* ------------------------------------------------------------------------

\* longest generated input, counted in lexemes of Chunks
MaxChunks == 3
\* deepest parenthesis nesting of the inputs "(" * d + "n" + ")" * d
MaxDepth == 6
\* evaluate is called with n in -MaxN .. MaxN
MaxN == 5
\* threads that share one formula
NumThreads == 2
\* longest corpus file, in lines
MaxLines == 3
\* a thread calls evaluate with n in -ThreadN .. ThreadN
ThreadN == 2
\* largest literal exponent of a formula the model evaluates (Python
\* integers are unbounded, TLC's are 32 bits wide)
MaxPow == 6
\* interpreter recursion limit, scaled down from CPython's default of 1000
\* frames so that the inputs of the model reach it
RecursionLimit == 40
\* fractional bits kept by the model of float()
FloatBits == 10

\* ------------------------------------------------------------------------
\* Characters
\* ------------------------------------------------------------------------

Digits == {"0", "1", "2", "3", "4", "5", "6", "7", "8", "9"}
LowerLetters == {"a", "b", "c", "d", "e", "f", "g", "h", "i", "j", "k", "l",
                 "m", "n", "o", "p", "q", "r", "s", "t", "u", "v", "w", "x",
                 "y", "z"}
UpperLetters == {"A", "B", "C", "D", "E", "F", "G", "H", "I", "J", "K", "L",
                 "M", "N", "O", "P", "Q", "R", "S", "T", "U", "V", "W", "X",
                 "Y", "Z"}
Letters == LowerLetters \cup UpperLetters
\* the characters \s matches and str.strip() removes
Whitespace == {" ", "\t", "\n"}
OperatorChars == {"+", "-", "*", "/", "^", "(", ")", ","}

None == [none |-> TRUE]

\* str.lower() on one character
LowerChar(c) ==
    CASE c = "A" -> "a" [] c = "B" -> "b" [] c = "C" -> "c" [] c = "D" -> "d"
      [] c = "E" -> "e" [] c = "F" -> "f" [] c = "G" -> "g" [] c = "H" -> "h"
      [] c = "I" -> "i" [] c = "J" -> "j" [] c = "K" -> "k" [] c = "L" -> "l"
      [] c = "M" -> "m" [] c = "N" -> "n" [] c = "O" -> "o" [] c = "P" -> "p"
      [] c = "Q" -> "q" [] c = "R" -> "r" [] c = "S" -> "s" [] c = "T" -> "t"
      [] c = "U" -> "u" [] c = "V" -> "v" [] c = "W" -> "w" [] c = "X" -> "x"
      [] c = "Y" -> "y" [] c = "Z" -> "z" [] OTHER -> c

Lower(s) == [i \in 1..Len(s) |-> LowerChar(s[i])]

DigitValue(c) ==
    CASE c = "0" -> 0 [] c = "1" -> 1 [] c = "2" -> 2 [] c = "3" -> 3
      [] c = "4" -> 4 [] c = "5" -> 5 [] c = "6" -> 6 [] c = "7" -> 7
      [] c = "8" -> 8 [] c = "9" -> 9

\* int(str) of a run of decimal digits
RECURSIVE IntOfDigits(_)
IntOfDigits(s) ==
    IF Len(s) = 0 THEN 0
    ELSE 10 * IntOfDigits(SubSeq(s, 1, Len(s) - 1)) + DigitValue(s[Len(s)])

\* ------------------------------------------------------------------------
\* FormulaParser._sanitize_expression
\* ------------------------------------------------------------------------

\* str.strip(): drop the leading and the trailing whitespace
RECURSIVE LStrip(_)
LStrip(s) ==
    IF Len(s) > 0 /\ s[1] \in Whitespace THEN LStrip(Tail(s)) ELSE s

RECURSIVE RStripSet(_, _)
RStripSet(s, chars) ==
    IF Len(s) > 0 /\ s[Len(s)] \in chars
    THEN RStripSet(SubSeq(s, 1, Len(s) - 1), chars)
    ELSE s

Strip(s) == RStripSet(LStrip(s), Whitespace)

\* the character class of the fullmatch: [0-9nN\+\-\*/\^\(\),\sa-zA-Z]
SanitizerAllowed == Digits \cup Letters \cup OperatorChars \cup Whitespace

\* a sanitizer that removes the trailing '.' and ';' before it trims the
\* whitespace: a variant of sanitize_expression under which C20 fails
sanitize_rstrip_first(e) ==
    LET candidate == Strip(RStripSet(e, {".", ";"}))
    IN  IF Len(candidate) = 0 THEN None
        ELSE IF \E i \in 1..Len(candidate) : candidate[i] \notin SanitizerAllowed
             THEN None
             ELSE [str |-> candidate]

\* FormulaParser._sanitize_expression: the cleaned text as [str |-> text],
\* or None
sanitize_expression(e) ==
    LET candidate == RStripSet(Strip(e), {".", ";"})
    IN  IF Len(candidate) = 0 THEN None
        ELSE IF \E i \in 1..Len(candidate) : candidate[i] \notin SanitizerAllowed
             THEN None
             ELSE [str |-> candidate]

\* ------------------------------------------------------------------------
\* _tokenize
\* ------------------------------------------------------------------------

Tok(kind, num, name) == [kind |-> kind, num |-> num, name |-> name]

ValueError(msg) == [ok |-> FALSE, exc |-> "ValueError", msg |-> msg]
RecursionError == [ok |-> FALSE, exc |-> "RecursionError", msg |-> "maximum recursion depth exceeded"]

\* the tuple of supported names of _tokenize and Parser.primary
FunctionNames == {"floor", "ceil", "binomial", "sqrtint", "gcd", "sumdigits"}

\* the characters of a function name
Spelling(name) ==
    CASE name = "floor" -> <<"f", "l", "o", "o", "r">>
      [] name = "ceil" -> <<"c", "e", "i", "l">>
      [] name = "binomial" -> <<"b", "i", "n", "o", "m", "i", "a", "l">>
      [] name = "sqrtint" -> <<"s", "q", "r", "t", "i", "n", "t">>
      [] name = "gcd" -> <<"g", "c", "d">>
      [] name = "sumdigits" -> <<"s", "u", "m", "d", "i", "g", "i", "t", "s">>

\* end of the longest run of characters of cls that starts at pos (pos is
\* 1-based; the result is the position after the run)
RECURSIVE RunEnd(_, _, _)
RunEnd(s, pos, cls) ==
    IF pos <= Len(s) /\ s[pos] \in cls THEN RunEnd(s, pos + 1, cls) ELSE pos

\* TOKEN_REGEX.match(expr, pos): \s* and then the first alternative that
\* matches; the result is [matched, group, text, end]
TOKEN_REGEX_match(s, pos) ==
    LET p == RunEnd(s, pos, Whitespace)
        NoMatch == [matched |-> FALSE, group |-> 0, text |-> <<>>, end |-> pos]
        M(g, e) == [matched |-> TRUE, group |-> g, text |-> SubSeq(s, p, e - 1), end |-> e]
    IN  IF p > Len(s) THEN NoMatch
        ELSE IF s[p] \in Letters THEN M(1, RunEnd(s, p, Letters))
        ELSE IF s[p] \in Digits THEN M(2, RunEnd(s, p, Digits))
        ELSE IF s[p] \in {"+", "-"} THEN M(4, p + 1)
        ELSE IF s[p] = "*" THEN M(5, p + 1)
        ELSE IF s[p] = "/" THEN M(6, p + 1)
        ELSE IF s[p] = "^" THEN M(7, p + 1)
        ELSE IF s[p] = "(" THEN M(8, p + 1)
        ELSE IF s[p] = ")" THEN M(9, p + 1)
        ELSE IF s[p] = "," THEN M(10, p + 1)
        ELSE NoMatch

\* TokenOfMatch with an identifier read as the variable as soon as it
\* starts with n: a variant under which C10 fails
TokenOfMatch_prefix(m) ==
    IF m.group = 1 THEN
        LET func_name == Lower(m.text)
        IN  IF func_name[1] = "n" THEN [ok |-> TRUE, tok |-> Tok("VAR", 0, "n")]
            ELSE IF \E f \in FunctionNames : Spelling(f) = func_name
                 THEN [ok |-> TRUE,
                       tok |-> Tok("FUNC", 0, CHOOSE f \in FunctionNames : Spelling(f) = func_name)]
                 ELSE ValueError("Unsupported identifier")
    ELSE IF m.group = 2 THEN [ok |-> TRUE, tok |-> Tok("INT", IntOfDigits(m.text), "")]
    ELSE IF m.group = 4
         THEN [ok |-> TRUE, tok |-> IF m.text = <<"+">> THEN Tok("ADD", 0, "+")
                                                        ELSE Tok("SUB", 0, "-")]
    ELSE IF m.group = 5 THEN [ok |-> TRUE, tok |-> Tok("MUL", 0, "*")]
    ELSE IF m.group = 6 THEN [ok |-> TRUE, tok |-> Tok("DIV", 0, "/")]
    ELSE IF m.group = 7 THEN [ok |-> TRUE, tok |-> Tok("POW", 0, "^")]
    ELSE IF m.group = 8 THEN [ok |-> TRUE, tok |-> Tok("LP", 0, "(")]
    ELSE IF m.group = 9 THEN [ok |-> TRUE, tok |-> Tok("RP", 0, ")")]
    ELSE [ok |-> TRUE, tok |-> Tok("COMMA", 0, ",")]

\* the token one match appends, or the ValueError of an unsupported name
TokenOfMatch(m) ==
    IF m.group = 1 THEN
        LET func_name == Lower(m.text)
        IN  IF func_name = <<"n">> THEN [ok |-> TRUE, tok |-> Tok("VAR", 0, "n")]
            ELSE IF \E f \in FunctionNames : Spelling(f) = func_name
                 THEN [ok |-> TRUE,
                       tok |-> Tok("FUNC", 0, CHOOSE f \in FunctionNames : Spelling(f) = func_name)]
                 ELSE ValueError("Unsupported identifier")
    ELSE IF m.group = 2 THEN [ok |-> TRUE, tok |-> Tok("INT", IntOfDigits(m.text), "")]
    ELSE IF m.group = 4
         THEN [ok |-> TRUE, tok |-> IF m.text = <<"+">> THEN Tok("ADD", 0, "+")
                                                        ELSE Tok("SUB", 0, "-")]
    ELSE IF m.group = 5 THEN [ok |-> TRUE, tok |-> Tok("MUL", 0, "*")]
    ELSE IF m.group = 6 THEN [ok |-> TRUE, tok |-> Tok("DIV", 0, "/")]
    ELSE IF m.group = 7 THEN [ok |-> TRUE, tok |-> Tok("POW", 0, "^")]
    ELSE IF m.group = 8 THEN [ok |-> TRUE, tok |-> Tok("LP", 0, "(")]
    ELSE IF m.group = 9 THEN [ok |-> TRUE, tok |-> Tok("RP", 0, ")")]
    ELSE [ok |-> TRUE, tok |-> Tok("COMMA", 0, ",")]

\* the while loop of _tokenize from scan position pos with the tokens so far
RECURSIVE tokenize_loop(_, _, _)
tokenize_loop(s, pos, tokens) ==
    IF pos > Len(s) THEN [ok |-> TRUE, tokens |-> Append(tokens, Tok("EOF", 0, ""))]
    ELSE LET m == TOKEN_REGEX_match(s, pos)
         IN  IF ~m.matched THEN ValueError("Invalid token")
             ELSE LET t == TokenOfMatch(m)
                  IN  IF ~t.ok THEN t
                      ELSE tokenize_loop(s, m.end, Append(tokens, t.tok))

tokenize(s) == tokenize_loop(s, 1, <<>>)

\* ------------------------------------------------------------------------
\* class Parser
\* ------------------------------------------------------------------------

NumNode(v) == [type |-> "NumNode", value |-> v]
VarNode == [type |-> "VarNode"]
BinNode(op, left, right) == [type |-> "BinNode", op |-> op, left |-> left, right |-> right]
UnaryNode(op, operand) == [type |-> "UnaryNode", op |-> op, operand |-> operand]
FuncNode(name, args) == [type |-> "FuncNode", name |-> name, args |-> args]

\* a grammar method that returned node with the parser's index at i
Parsed(node, i) == [ok |-> TRUE, node |-> node, i |-> i]

\* Parser.peek: self.tokens[self.i], i counted from 0 as in the code
Parser_peek(tokens, i) == tokens[i + 1]

\* Parser.eat: the new index, or the ValueError of an unexpected token
Parser_eat(tokens, i, kind) ==
    IF Parser_peek(tokens, i).kind # kind THEN ValueError("Expected other token")
    ELSE [ok |-> TRUE, tok |-> Parser_peek(tokens, i), i |-> i + 1]

\* The grammar methods take the token list, the index i and the depth f of
\* their own frame on the interpreter stack.  A call that would need a frame
\* deeper than RecursionLimit raises RecursionError; the deepest frames of a
\* descent are the peek and eat calls of Parser.primary.  Where a method goes
\* on with the result of a call it has made, the rest of the method is an
\* operator of its own that takes that result.
RECURSIVE Parser_expr(_, _, _), expr_first(_, _, _), expr_loop(_, _, _, _),
          expr_rhs(_, _, _, _, _), Parser_term(_, _, _), term_first(_, _, _),
          term_loop(_, _, _, _), term_rhs(_, _, _, _, _), Parser_factor(_, _, _),
          Parser_signed_power(_, _, _), Parser_power(_, _, _),
          Parser_primary(_, _, _), args_first(_, _, _, _), args_loop(_, _, _, _, _),
          args_next(_, _, _, _, _)

\* expr := term (("+"|"-") term)*
Parser_expr(tokens, i, f) == expr_first(tokens, Parser_term(tokens, i, f + 1), f)

expr_first(tokens, t, f) == IF ~t.ok THEN t ELSE expr_loop(tokens, t.node, t.i, f)

expr_loop(tokens, node, i, f) ==
    IF Parser_peek(tokens, i).kind \in {"ADD", "SUB"}
    THEN LET op == Parser_eat(tokens, i, Parser_peek(tokens, i).kind)
         IN  expr_rhs(tokens, node, op.tok.name, Parser_term(tokens, op.i, f + 1), f)
    ELSE Parsed(node, i)

expr_rhs(tokens, node, op, rhs, f) ==
    IF ~rhs.ok THEN rhs ELSE expr_loop(tokens, BinNode(op, node, rhs.node), rhs.i, f)

\* term := factor ( ('*'|'/') factor )*
Parser_term(tokens, i, f) == term_first(tokens, Parser_factor(tokens, i, f + 1), f)

term_first(tokens, t, f) == IF ~t.ok THEN t ELSE term_loop(tokens, t.node, t.i, f)

\* a loop of Parser.term that takes '+' and '-' as well, all four binary
\* operators on one level: a variant of term_loop under which C27 fails
term_loop_flat(tokens, node, i, f) ==
    IF Parser_peek(tokens, i).kind \in {"MUL", "DIV", "ADD", "SUB"}
    THEN term_rhs(tokens, node, Parser_peek(tokens, i).name,
                  Parser_factor(tokens, i + 1, f + 1), f)
    ELSE Parsed(node, i)

term_loop(tokens, node, i, f) ==
    IF Parser_peek(tokens, i).kind \in {"MUL", "DIV"}
    THEN LET op_kind == Parser_peek(tokens, i).kind
             op == Parser_eat(tokens, i, op_kind)
         IN  term_rhs(tokens, node, IF op_kind = "DIV" THEN "/" ELSE "*",
                      Parser_factor(tokens, op.i, f + 1), f)
    ELSE Parsed(node, i)

term_rhs(tokens, node, op, rhs, f) ==
    IF ~rhs.ok THEN rhs ELSE term_loop(tokens, BinNode(op, node, rhs.node), rhs.i, f)

\* factor := power, a factor that takes no sign: a variant of
\* Parser.factor under which C3 fails
factor_unsigned(tokens, i, f) == Parser_power(tokens, i, f + 1)

\* factor := signed_power
Parser_factor(tokens, i, f) == Parser_signed_power(tokens, i, f + 1)

\* the UnaryNode of signed_power around the power p
signed(op, p) == IF ~p.ok THEN p ELSE Parsed(UnaryNode(op, p.node), p.i)

\* the rest of Parser.power after the primary p: ('^' INT)?
power_rest(tokens, p) ==
    IF ~p.ok THEN p
    ELSE IF Parser_peek(tokens, p.i).kind = "POW"
    THEN LET pw == Parser_eat(tokens, p.i, "POW")
             exp_tok == Parser_eat(tokens, pw.i, "INT")
         IN  IF ~exp_tok.ok THEN exp_tok
             ELSE Parsed(BinNode("^", p.node, NumNode(exp_tok.tok.num)), exp_tok.i)
    ELSE p

\* a sign that binds to the primary, tighter than '^': a variant of
\* Parser.signed_power under which C8 fails
signed_power_tight(tokens, i, f) ==
    IF Parser_peek(tokens, i).kind \in {"ADD", "SUB"}
    THEN power_rest(tokens, signed(Parser_peek(tokens, i).name,
                                   Parser_primary(tokens, i + 1, f + 2)))
    ELSE Parser_power(tokens, i, f + 1)

\* signed_power := ('+'|'-')? power
Parser_signed_power(tokens, i, f) ==
    IF Parser_peek(tokens, i).kind \in {"ADD", "SUB"}
    THEN LET op == Parser_eat(tokens, i, Parser_peek(tokens, i).kind)
         IN  signed(op.tok.name, Parser_power(tokens, op.i, f + 1))
    ELSE Parser_power(tokens, i, f + 1)

\* power := primary ('^' primary)?, an exponent that is any primary: a
\* variant of Parser.power under which C7 fails
power_any_exponent(tokens, i, f) ==
    LET p == Parser_primary(tokens, i, f + 1)
    IN  IF ~p.ok THEN p
        ELSE IF Parser_peek(tokens, p.i).kind = "POW"
        THEN LET e == Parser_primary(tokens, p.i + 1, f + 1)
             IN  IF ~e.ok THEN e ELSE Parsed(BinNode("^", p.node, e.node), e.i)
        ELSE p

\* power := primary ('^' INT)?
Parser_power(tokens, i, f) == power_rest(tokens, Parser_primary(tokens, i, f + 1))

\* the closing parenthesis of '(' expr ')' after the expression e
paren_close(tokens, e) ==
    IF ~e.ok THEN e
    ELSE LET rp == Parser_eat(tokens, e.i, "RP")
         IN  IF ~rp.ok THEN rp ELSE Parsed(e.node, rp.i)

\* primary := INT | VAR | FUNC '(' expr ')' | '(' expr ')'
Parser_primary(tokens, i, f) ==
    LET kind == Parser_peek(tokens, i).kind
    IN  IF f + 1 > RecursionLimit THEN RecursionError
        ELSE IF kind \in {"INT", "VAR", "FUNC", "LP"} /\ f + 2 > RecursionLimit
        THEN RecursionError
        ELSE IF kind = "INT" THEN Parsed(NumNode(Parser_peek(tokens, i).num), i + 1)
        ELSE IF kind = "VAR" THEN Parsed(VarNode, i + 1)
        ELSE IF kind = "FUNC" THEN
            LET func_name == Parser_peek(tokens, i).name
                lp == Parser_eat(tokens, i + 1, "LP")
            IN  IF func_name \notin FunctionNames THEN ValueError("Unsupported function")
                ELSE IF ~lp.ok THEN lp
                ELSE args_first(tokens, func_name, Parser_expr(tokens, lp.i, f + 1), f)
        ELSE IF kind = "LP" THEN paren_close(tokens, Parser_expr(tokens, i + 1, f + 1))
        ELSE ValueError("Expected primary")

\* the arguments of a function call after its first argument
args_first(tokens, func_name, first, f) ==
    IF ~first.ok THEN first ELSE args_loop(tokens, func_name, <<first.node>>, first.i, f)

\* the argument loop of a function call and its closing parenthesis
args_loop(tokens, func_name, args, i, f) ==
    IF Parser_peek(tokens, i).kind = "COMMA"
    THEN args_next(tokens, func_name, args, Parser_expr(tokens, i + 1, f + 1), f)
    ELSE LET rp == Parser_eat(tokens, i, "RP")
         IN  IF ~rp.ok THEN rp ELSE Parsed(FuncNode(func_name, args), rp.i)

args_next(tokens, func_name, args, a, f) ==
    IF ~a.ok THEN a ELSE args_loop(tokens, func_name, Append(args, a.node), a.i, f)

\* Parser.parse without the test for trailing tokens: a variant of
\* parse_end under which C11 fails
parse_end_prefix(tokens, e) == e

\* an end of Parser.parse that eats the EOF token: a variant of parse_end
\* under which C28 fails
parse_end_eat_eof(tokens, e) ==
    IF ~e.ok THEN e
    ELSE LET eof == Parser_eat(tokens, e.i, "EOF")
         IN  IF ~eof.ok THEN ValueError("Unexpected trailing tokens")
             ELSE Parsed(e.node, eof.i)

\* the end of Parser.parse after the expression e
parse_end(tokens, e) ==
    IF ~e.ok THEN e
    ELSE IF Parser_peek(tokens, e.i).kind # "EOF"
         THEN ValueError("Unexpected trailing tokens")
         ELSE e

\* Parser.parse, called in a frame at depth f
Parser_parse(tokens, f) == parse_end(tokens, Parser_expr(tokens, 0, f + 1))

\* Parser(tokens).parse() on the result t of _tokenize
parse_tokens(t, f) == IF ~t.ok THEN t ELSE Parser_parse(t.tokens, f + 1)

\* _parse_expression, called in a frame at depth f
module_parse_expression(s, f) == parse_tokens(tokenize(s), f)

\* ------------------------------------------------------------------------
\* class FormulaParser
\* ------------------------------------------------------------------------

\* depth of the frame of FormulaParser.parse_expression when the caller is
\* the module level of a script
CallerDepth == 2

ParsedFormula(seq_id, source, expression, node) ==
    [sequence_id |-> seq_id, source |-> source, expression |-> expression, node |-> node]

\* the try statement of _build_formula on the result r of _parse_expression:
\* [ret |-> formula or None] when it returns, [exc |-> class] when an
\* exception escapes its except clause
formula_or_none(seq_id, source, cleaned, r) ==
    IF r.ok THEN [ret |-> ParsedFormula(seq_id, source, cleaned, r.node), exc |-> ""]
    ELSE IF r.exc = "ValueError" THEN [ret |-> None, exc |-> ""]
    ELSE [ret |-> None, exc |-> r.exc]

\* FormulaParser._build_formula, called in a frame at depth f
build_formula(seq_id, source, e, f) ==
    LET cleaned == sanitize_expression(e)
    IN  IF cleaned = None THEN [ret |-> None, exc |-> ""]
        ELSE formula_or_none(seq_id, source, cleaned.str,
                             module_parse_expression(cleaned.str, f + 1))

\* ------------------------------------------------------------------------
\* Numbers: int, fractions.Fraction, float
\* ------------------------------------------------------------------------

Abs(a) == IF a < 0 THEN -a ELSE a

RECURSIVE Gcd(_, _)

\* a gcd that keeps the sign of its first argument when the second is 0: a
\* variant of Gcd under which C16 fails
Gcd_signed(a, b) == IF b = 0 THEN a ELSE Gcd(b, Abs(a) % Abs(b))

\* math.gcd
Gcd(a, b) == IF b = 0 THEN Abs(a) ELSE Gcd(b, Abs(a) % Abs(b))

PyInt(v) == [kind |-> "int", num |-> v, den |-> 1]

\* Fraction(num, den) for den # 0: lowest terms, positive denominator
Fraction(num, den) ==
    LET g == Gcd(num, den)
        sgn == IF den < 0 THEN -1 ELSE 1
    IN  [kind |-> "Fraction", num |-> sgn * (num \div g), den |-> Abs(den) \div g]

\* the type of the result of int (+,-,*) Fraction arithmetic
ArithKind(a, b) == IF a.kind = "int" /\ b.kind = "int" THEN "int" ELSE "Fraction"

WithKind(v, kind) == [kind |-> kind, num |-> v.num, den |-> v.den]

Add(a, b) == WithKind(Fraction(a.num * b.den + b.num * a.den, a.den * b.den), ArithKind(a, b))
Sub(a, b) == WithKind(Fraction(a.num * b.den - b.num * a.den, a.den * b.den), ArithKind(a, b))
Mul(a, b) == WithKind(Fraction(a.num * b.num, a.den * b.den), ArithKind(a, b))
Neg(a) == [kind |-> a.kind, num |-> -a.num, den |-> a.den]

\* a division that gives a float, like Python's left / right: a variant of
\* Div under which C29 fails
Div_float(a, b) == WithKind(Fraction(a.num * b.den, a.den * b.num), "float")

\* Fraction(left, right) of two numbers, right # 0
Div(a, b) == Fraction(a.num * b.den, a.den * b.num)

RECURSIVE IPow(_, _)

\* a power that is 0 for the base 0 whatever the exponent: a variant of
\* IPow under which C19 fails
IPow_zero_base(b, e) == IF b = 0 THEN 0 ELSE IF e = 0 THEN 1 ELSE b * IPow(b, e - 1)

\* pow(b, e) of ints, e >= 0
IPow(b, e) == IF e = 0 THEN 1 ELSE b * IPow(b, e - 1)

\* pow(left, right) for an int right >= 0, the only exponents Parser.power
\* builds: an int for an int base, a Fraction for a Fraction base
Pow(a, e) == [kind |-> a.kind, num |-> IPow(a.num, e), den |-> IPow(a.den, e)]

\* int(x): truncation toward zero
Trunc(a) == IF a.num < 0 THEN -((-a.num) \div a.den) ELSE a.num \div a.den

\* a floor that rounds toward zero like int(): a variant of Floor under
\* which C17 fails
Floor_toward_zero(a) == Trunc(a)

\* math.floor and math.ceil
Floor(a) == a.num \div a.den
Ceil(a) == -((-a.num) \div a.den)

\* float(x) of a Fraction: the nearest value with FloatBits fractional bits
Float(a) ==
    LET scale == IPow(2, FloatBits)
        r == Fraction((2 * a.num * scale + a.den) \div (2 * a.den), scale)
    IN  WithKind(r, "float")

\* ------------------------------------------------------------------------
\* formula.py: _binomial, _sumdigits, _to_int
\* ------------------------------------------------------------------------

\* math.comb(n, k) for n >= 0, k >= 0
RECURSIVE Comb(_, _)
Comb(n, k) ==
    IF k > n THEN 0
    ELSE IF k = 0 THEN 1
    ELSE (Comb(n, k - 1) * (n - k + 1)) \div k

\* _binomial with the sign of the rows n < 0 dropped: a variant of
\* _binomial under which C2 fails
binomial_unsigned(n_in, k_in) ==
    LET neg_nonneg == n_in < 0 /\ k_in >= 0
        neg_ge == n_in < 0 /\ k_in < 0 /\ n_in >= k_in
        n_work == IF neg_nonneg THEN k_in - (n_in + 1)
                  ELSE IF neg_ge THEN -(k_in + 1)
                  ELSE n_in
        k_work == IF neg_ge THEN n_in - k_in ELSE k_in
    IN  IF n_in < 0 /\ k_in < 0 /\ n_in < k_in THEN 0
        ELSE IF k_work < 0 \/ n_work < k_work THEN 0
        ELSE Comb(n_work, k_work)

\* _binomial (the same statements are inlined in parser.py's _eval_node);
\* the infinity test is never true of an int
binomial(n_in, k_in) ==
    LET neg_nonneg == n_in < 0 /\ k_in >= 0
        neg_ge == n_in < 0 /\ k_in < 0 /\ n_in >= k_in
        sign == IF neg_nonneg THEN (IF k_in % 2 = 1 THEN -1 ELSE 1)
                ELSE IF neg_ge THEN (IF (n_in - k_in) % 2 = 1 THEN -1 ELSE 1)
                ELSE 1
        n_work == IF neg_nonneg THEN k_in - (n_in + 1)
                  ELSE IF neg_ge THEN -(k_in + 1)
                  ELSE n_in
        k_work == IF neg_ge THEN n_in - k_in ELSE k_in
        k_sym == IF n_work < 2 * k_work THEN n_work - k_work ELSE k_work
    IN  IF n_in < 0 /\ k_in < 0 /\ n_in < k_in THEN 0
        ELSE IF k_work < 0 \/ n_work < k_work THEN 0
        ELSE sign * Comb(n_work, k_sym)

RECURSIVE sumdigits_loop(_, _, _)

\* a loop that adds the lowest digit only: a variant of sumdigits_loop
\* under which C15 fails
sumdigits_loop_once(y, base, s) == s + (y % base)

\* the while loop of _sumdigits
sumdigits_loop(y, base, s) ==
    IF y = 0 THEN s ELSE sumdigits_loop(y \div base, base, s + (y % base))

\* _sumdigits that returns 0 for x = 0 before it looks at the base: a
\* variant of sumdigits under which C14 fails
sumdigits_zero_first(x, base) ==
    IF Abs(x) = 0 THEN [ok |-> TRUE, val |-> PyInt(0)]
    ELSE IF base < 2 THEN ValueError("sumdigits() base must be >= 2")
    ELSE [ok |-> TRUE, val |-> PyInt(sumdigits_loop(Abs(x), base, 0))]

sumdigits(x, base) ==
    IF base < 2 THEN ValueError("sumdigits() base must be >= 2")
    ELSE IF Abs(x) = 0 THEN [ok |-> TRUE, val |-> PyInt(0)]
    ELSE [ok |-> TRUE, val |-> PyInt(sumdigits_loop(Abs(x), base, 0))]

\* _to_int that truncates a Fraction like int() does: a variant of to_int
\* under which C13 fails
to_int_truncating(v) == [ok |-> TRUE, val |-> PyInt(Trunc(v))]

\* _to_int: the float branch is never reached, no float is computed
to_int(v) ==
    IF v.kind = "Fraction" /\ v.den # 1 THEN ValueError("Expected integer argument")
    ELSE [ok |-> TRUE, val |-> PyInt(v.num)]

\* an integer square root of |x| that takes a negative x: a variant of
\* isqrt under which C18 fails
isqrt_of_abs(x) ==
    [ok |-> TRUE,
     val |-> PyInt(CHOOSE r \in 0..Abs(x) : r * r <= Abs(x) /\ Abs(x) < (r + 1) * (r + 1))]

\* math.isqrt
isqrt(x) ==
    IF x < 0 THEN ValueError("isqrt() argument must be nonnegative")
    ELSE [ok |-> TRUE,
          val |-> PyInt(CHOOSE r \in 0..x : r * r <= x /\ x < (r + 1) * (r + 1))]

\* ------------------------------------------------------------------------
\* _eval_node and ParsedFormula.evaluate
\* ------------------------------------------------------------------------

Ok(v) == [ok |-> TRUE, val |-> v]

\* eval_func with floor and binomial taking what arguments they need and
\* ignoring the count: a variant of eval_func under which C12 fails
eval_func_lenient(name, arg_vals) ==
    IF name = "floor" THEN
        IF Len(arg_vals) < 1 THEN ValueError("floor() expects 1 argument")
        ELSE Ok(PyInt(Floor(arg_vals[1])))
    ELSE IF name = "ceil" THEN
        IF Len(arg_vals) # 1 THEN ValueError("ceil() expects 1 argument")
        ELSE Ok(PyInt(Ceil(arg_vals[1])))
    ELSE IF name = "binomial" THEN
        IF Len(arg_vals) < 2 THEN ValueError("binomial() expects 2 arguments")
        ELSE LET a == to_int(arg_vals[1])
                 b == to_int(arg_vals[2])
             IN  IF ~a.ok THEN a ELSE IF ~b.ok THEN b
                 ELSE Ok(PyInt(binomial(a.val.num, b.val.num)))
    ELSE IF name = "sqrtint" THEN
        IF Len(arg_vals) # 1 THEN ValueError("sqrtint() expects 1 argument")
        ELSE LET a == to_int(arg_vals[1])
             IN  IF ~a.ok THEN a ELSE isqrt(a.val.num)
    ELSE IF name = "gcd" THEN
        IF Len(arg_vals) # 2 THEN ValueError("gcd() expects 2 arguments")
        ELSE LET a == to_int(arg_vals[1])
                 b == to_int(arg_vals[2])
             IN  IF ~a.ok THEN a ELSE IF ~b.ok THEN b
                 ELSE Ok(PyInt(Gcd(a.val.num, b.val.num)))
    ELSE IF name = "sumdigits" THEN
        IF Len(arg_vals) \notin {1, 2} THEN ValueError("sumdigits() expects 1 or 2 arguments")
        ELSE LET x == to_int(arg_vals[1])
                 base == IF Len(arg_vals) = 2 THEN to_int(arg_vals[2]) ELSE Ok(PyInt(10))
             IN  IF ~x.ok THEN x ELSE IF ~base.ok THEN base
                 ELSE sumdigits(x.val.num, base.val.num)
    ELSE ValueError("Unknown function")

\* the value of a function call on evaluated arguments
eval_func(name, arg_vals) ==
    IF name = "floor" THEN
        IF Len(arg_vals) # 1 THEN ValueError("floor() expects 1 argument")
        ELSE Ok(PyInt(Floor(arg_vals[1])))
    ELSE IF name = "ceil" THEN
        IF Len(arg_vals) # 1 THEN ValueError("ceil() expects 1 argument")
        ELSE Ok(PyInt(Ceil(arg_vals[1])))
    ELSE IF name = "binomial" THEN
        IF Len(arg_vals) # 2 THEN ValueError("binomial() expects 2 arguments")
        ELSE LET a == to_int(arg_vals[1])
                 b == to_int(arg_vals[2])
             IN  IF ~a.ok THEN a ELSE IF ~b.ok THEN b
                 ELSE Ok(PyInt(binomial(a.val.num, b.val.num)))
    ELSE IF name = "sqrtint" THEN
        IF Len(arg_vals) # 1 THEN ValueError("sqrtint() expects 1 argument")
        ELSE LET a == to_int(arg_vals[1])
             IN  IF ~a.ok THEN a ELSE isqrt(a.val.num)
    ELSE IF name = "gcd" THEN
        IF Len(arg_vals) # 2 THEN ValueError("gcd() expects 2 arguments")
        ELSE LET a == to_int(arg_vals[1])
                 b == to_int(arg_vals[2])
             IN  IF ~a.ok THEN a ELSE IF ~b.ok THEN b
                 ELSE Ok(PyInt(Gcd(a.val.num, b.val.num)))
    ELSE IF name = "sumdigits" THEN
        IF Len(arg_vals) \notin {1, 2} THEN ValueError("sumdigits() expects 1 or 2 arguments")
        ELSE LET x == to_int(arg_vals[1])
                 base == IF Len(arg_vals) = 2 THEN to_int(arg_vals[2]) ELSE Ok(PyInt(10))
             IN  IF ~x.ok THEN x ELSE IF ~base.ok THEN base
                 ELSE sumdigits(x.val.num, base.val.num)
    ELSE ValueError("Unknown function")

\* eval_bin with a zero test that only an int divisor passes, so that a
\* Fraction zero reaches Fraction(left, right): a variant of eval_bin
\* under which C6 fails
eval_bin_int_zero(op, left, right) ==
    IF op = "+" THEN Ok(Add(left, right))
    ELSE IF op = "-" THEN Ok(Sub(left, right))
    ELSE IF op = "*" THEN Ok(Mul(left, right))
    ELSE IF op = "/" THEN
        IF right.kind = "int" /\ right.num = 0 THEN ValueError("Division by zero")
        ELSE IF right.num = 0
        THEN [ok |-> FALSE, exc |-> "ZeroDivisionError", msg |-> "Fraction(1, 0)"]
        ELSE Ok(Div(left, right))
    ELSE IF op = "^" THEN Ok(PyInt(Trunc(Pow(left, right.num))))
    ELSE ValueError("Invalid node")

\* the value of a binary operator on evaluated operands
eval_bin(op, left, right) ==
    IF op = "+" THEN Ok(Add(left, right))
    ELSE IF op = "-" THEN Ok(Sub(left, right))
    ELSE IF op = "*" THEN Ok(Mul(left, right))
    ELSE IF op = "/" THEN
        IF right.num = 0 THEN ValueError("Division by zero")
        ELSE Ok(Div(left, right))
    ELSE IF op = "^" THEN Ok(PyInt(Trunc(Pow(left, right.num))))
    ELSE ValueError("Invalid node")

RECURSIVE eval_node(_, _), eval_args(_, _, _), args_step(_, _, _, _),
          bin_right(_, _, _)

\* [_eval_node(arg, n) for arg in node.args]: left to right, the first
\* exception ends the comprehension
eval_args(args, n, vals) ==
    IF Len(args) = 0 THEN [ok |-> TRUE, vals |-> vals]
    ELSE args_step(args, n, vals, eval_node(Head(args), n))

args_step(args, n, vals, v) ==
    IF ~v.ok THEN v ELSE eval_args(Tail(args), n, Append(vals, v.val))

\* val if node.op == "+" else -val
unary_value(op, v) == IF ~v.ok THEN v ELSE IF op = "+" THEN v ELSE Ok(Neg(v.val))

\* the function applied to the evaluated arguments
func_value(name, a) == IF ~a.ok THEN a ELSE eval_func(name, a.vals)

\* the operator applied to the evaluated operands
bin_value(op, left, right) == IF ~right.ok THEN right ELSE eval_bin(op, left, right.val)

\* the right operand is evaluated after the left one
bin_right(node, n, left) ==
    IF ~left.ok THEN left ELSE bin_value(node.op, left.val, eval_node(node.right, n))

eval_node(node, n) ==
    IF node.type = "NumNode" THEN Ok(PyInt(node.value))
    ELSE IF node.type = "VarNode" THEN Ok(PyInt(n))
    ELSE IF node.type = "UnaryNode" THEN unary_value(node.op, eval_node(node.operand, n))
    ELSE IF node.type = "FuncNode" THEN func_value(node.name, eval_args(node.args, n, <<>>))
    ELSE IF node.type = "BinNode" THEN bin_right(node, n, eval_node(node.left, n))
    ELSE ValueError("Invalid node")

\* the result of ParsedFormula.evaluate for the result of _eval_node: the
\* float and the plain int branches follow the Fraction branch
normalized(result) ==
    IF ~result.ok THEN result
    ELSE IF result.val.kind = "Fraction" THEN
        IF result.val.den = 1 THEN Ok(PyInt(result.val.num))
        ELSE Ok(Float(result.val))
    ELSE Ok(PyInt(Trunc(result.val)))

\* ParsedFormula.evaluate
evaluate(f, n) == normalized(eval_node(f.node, n))

\* ------------------------------------------------------------------------
\* Inputs
\* ------------------------------------------------------------------------

\* lexemes and short phrases the generated inputs are concatenated from
Chunks == {<<"n">>, <<"N">>, <<"2">>, <<"0">>, <<"+">>, <<"-">>, <<"*">>, <<"/">>,
           <<"^">>, <<"(">>, <<")">>, <<",">>, <<" ">>, <<".">>, <<"#">>,
           <<"f", "l", "o", "o", "r">>, <<"s", "i", "n">>, <<"(", "n", ")">>}

\* every concatenation of at most k chunks
RECURSIVE ChunkStrings(_)
ChunkStrings(k) ==
    IF k = 0 THEN {<<>>}
    ELSE LET shorter == ChunkStrings(k - 1)
         IN  shorter \cup {s \o c : s \in shorter, c \in Chunks}

\* expressions the specification names, and their neighbours
Catalog ==
    {
     \* a unary sign right after a multiplicative operator
     <<"2", "*", "-", "n">>,  \* 2*-n
     <<"2", "/", "-", "n">>,  \* 2/-n
     \* unary sign and power
     <<"-", "n", "^", "2">>,  \* -n^2
     \* exact division
     <<"(", "n", "*", "(", "n", "+", "1", ")", ")", "/", "2">>,  \* (n*(n+1))/2
     <<"(", "n", "/", "3", ")", "*", "3">>,  \* (n/3)*3
     \* power of a rational base
     <<"(", "n", "/", "2", ")", "^", "2">>,  \* (n/2)^2
     <<"(", "n", "*", "n", ")", "/", "4">>,  \* (n*n)/4
     <<"1", "/", "(", "(", "n", "/", "2", ")", "^", "2", ")">>,  \* 1/((n/2)^2)
     \* division by zero
     <<"1", "/", "n">>,  \* 1/n
     <<"1", "/", "(", "n", "-", "n", ")">>,  \* 1/(n-n)
     <<"1", "/", "(", "n", "/", "2", "-", "n", "/", "2", ")">>,  \* 1/(n/2-n/2)
     \* exponents that are not integer literals
     <<"n", "^", "n">>,  \* n^n
     <<"n", "^", "(", "2", ")">>,  \* n^(2)
     <<"n", "^", "-", "1">>,  \* n^-1
     <<"n", "^", "f", "l", "o", "o", "r", "(", "n", ")">>,  \* n^floor(n)
     <<"n", "^", "3">>,  \* n^3
     \* whitespace in front of a stripped '.' or ';'
     <<"n", " ", ".">>,  \* n .
     <<"n", " ", ";">>,  \* n ;
     <<"n", ".">>,  \* n.
     <<"n", " ", "+", " ", "1", " ", ".">>,  \* n + 1 .
     <<"n", "+", "1", ".">>,  \* n+1.
     \* identifiers
     <<"s", "i", "n", "(", "n", ")">>,  \* sin(n)
     <<"n", "n">>,  \* nn
     <<"F", "l", "o", "o", "r", "(", "N", ")">>,  \* Floor(N)
     <<"f", "l", "o", "o", "r", "(", "(", "n", "+", "1", ")", "/", "2", ")">>,  \* floor((n+1)/2)
     <<"c", "e", "i", "l", "(", "n", "/", "2", ")">>,  \* ceil(n/2)
     <<"s", "q", "r", "t", "i", "n", "t", "(", "n", "*", "n", ")">>,  \* sqrtint(n*n)
     <<"g", "c", "d", "(", "n", ",", "2", ")">>,  \* gcd(n,2)
     <<"s", "u", "m", "d", "i", "g", "i", "t", "s", "(", "n", ")">>,  \* sumdigits(n)
     <<"s", "u", "m", "d", "i", "g", "i", "t", "s", "(", "n", ",", "2", ")">>,  \* sumdigits(n,2)
     <<"f", "l", "o", "o", "r", "(", "n", ",", "2", ")">>   \* floor(n,2)
    }

DigitChar(d) ==
    CASE d = 0 -> "0" [] d = 1 -> "1" [] d = 2 -> "2" [] d = 3 -> "3" [] d = 4 -> "4"
      [] d = 5 -> "5" [] d = 6 -> "6" [] d = 7 -> "7" [] d = 8 -> "8" [] d = 9 -> "9"

\* the text of a one-digit literal k, signed when negative
Literal(k) == IF k < 0 THEN <<"-", DigitChar(-k)>> ELSE <<DigitChar(k)>>

\* binomial(n,k) for every literal k in -MaxN .. MaxN
BinomialCall(k) ==
    <<"b", "i", "n", "o", "m", "i", "a", "l", "(", "n", ",">> \o Literal(k) \o <<")">>

BinomialInputs == {BinomialCall(k) : k \in -MaxN..MaxN}

\* "(" * d + "n" + ")" * d
Deep(d) == [i \in 1..d |-> "("] \o <<"n">> \o [i \in 1..d |-> ")"]

DeepInputs == {Deep(d) : d \in 0..MaxDepth}

\* inputs with tokens left over after a complete expression, inputs that
\* end before the expression is complete, and complete neighbours of both
TrailingInputs ==
    {<<"2", "n">>, <<"n", " ", "n">>, <<"(", "n", ")", ")">>, <<"n", "^", "2", "^", "3">>, <<"2", " ", "+", " ">>, <<"2", " ", "+">>, <<"(", "n">>, <<"n", ")">>,
     <<"f", "l", "o", "o", "r", "(", "n">>, <<"f", "l", "o", "o", "r", "(", "n", ")", ")">>, <<"n", " ", "2">>, <<"n", "(", "2", ")">>, <<"n", "^", "2">>, <<"2", " ", "+", " ", "n">>}

\* largest number of arguments of a generated function call
MaxArgs == 3

\* "n,n,...,n" with k arguments
RECURSIVE ArgList(_)
ArgList(k) ==
    IF k = 0 THEN <<>>
    ELSE IF k = 1 THEN <<"n">>
    ELSE ArgList(k - 1) \o <<",", "n">>

\* name(n,...,n) with k arguments
Call(name, k) == Spelling(name) \o <<"(">> \o ArgList(k) \o <<")">>

\* every supported function called with 0 .. MaxArgs arguments
ArityInputs ==
    {Call(name, k) : name \in FunctionNames, k \in 0..MaxArgs}
        \cup {<<"f", "l", "o", "o", "r", "(", "n", ",", ")">>, <<"f", "l", "o", "o", "r", "(", ",", "n", ")">>, <<"f", "l", "o", "o", "r", "(", "n", ",", "2", ")">>, <<"b", "i", "n", "o", "m", "i", "a", "l", "(", "n", ")">>, <<"f", "l", "o", "o", "r", "(", ")">>}


\* calls whose arguments are halves of n
HalfInputs ==
    {<<"b", "i", "n", "o", "m", "i", "a", "l", "(", "n", "/", "2", ",", "1", ")">>, <<"b", "i", "n", "o", "m", "i", "a", "l", "(", "1", ",", "n", "/", "2", ")">>, <<"s", "q", "r", "t", "i", "n", "t", "(", "n", "/", "2", ")">>, <<"g", "c", "d", "(", "n", "/", "2", ",", "2", ")">>,
     <<"g", "c", "d", "(", "2", ",", "n", "/", "2", ")">>, <<"s", "u", "m", "d", "i", "g", "i", "t", "s", "(", "n", "/", "2", ")">>, <<"s", "u", "m", "d", "i", "g", "i", "t", "s", "(", "9", ",", "n", "/", "2", ")">>, <<"f", "l", "o", "o", "r", "(", "n", "/", "2", ")">>,
     <<"b", "i", "n", "o", "m", "i", "a", "l", "(", "2", "*", "n", "/", "2", ",", "1", ")">>, <<"s", "q", "r", "t", "i", "n", "t", "(", "n", "*", "n", "/", "4", ")">>}


\* sumdigits(n,b) for every literal base b in -MaxN .. MaxN
SumdigitsCall(b) == <<"s", "u", "m", "d", "i", "g", "i", "t", "s", "(", "n", ",">> \o Literal(b) \o <<")">>

\* sumdigits with the base a literal and with the base n
SumdigitsInputs ==
    {SumdigitsCall(b) : b \in -MaxN..MaxN}
        \cup {<<"s", "u", "m", "d", "i", "g", "i", "t", "s", "(", "0", ",", "n", ")">>, <<"s", "u", "m", "d", "i", "g", "i", "t", "s", "(", "7", ",", "n", ")">>, <<"s", "u", "m", "d", "i", "g", "i", "t", "s", "(", "2", "5", "5", ",", "n", ")">>,
              <<"s", "u", "m", "d", "i", "g", "i", "t", "s", "(", "-", "2", "5", "5", ",", "n", ")">>, <<"s", "u", "m", "d", "i", "g", "i", "t", "s", "(", "n", "*", "n", "*", "n", ")">>, <<"s", "u", "m", "d", "i", "g", "i", "t", "s", "(", "0", ")">>,
              <<"s", "u", "m", "d", "i", "g", "i", "t", "s", "(", "2", "5", "5", ",", "1", "6", ")">>, <<"s", "u", "m", "d", "i", "g", "i", "t", "s", "(", "2", "5", "5", ")">>, <<"s", "u", "m", "d", "i", "g", "i", "t", "s", "(", "-", "2", "5", "5", ")">>}


\* gcd(n,k) and gcd(k,n) for every literal k in -MaxN .. MaxN
GcdCall(k) == <<"g", "c", "d", "(", "n", ",">> \o Literal(k) \o <<")">>
GcdCallSwapped(k) == <<"g", "c", "d", "(">> \o Literal(k) \o <<",", "n", ")">>

GcdInputs == {GcdCall(k) : k \in -MaxN..MaxN} \cup {GcdCallSwapped(k) : k \in -MaxN..MaxN}


\* floor and ceil of rationals of either sign
FloorCeilInputs ==
    {<<"f", "l", "o", "o", "r", "(", "n", "/", "2", ")">>, <<"f", "l", "o", "o", "r", "(", "n", "/", "3", ")">>, <<"c", "e", "i", "l", "(", "n", "/", "3", ")">>, <<"f", "l", "o", "o", "r", "(", "-", "n", "/", "3", ")">>, <<"c", "e", "i", "l", "(", "-", "n", "/", "3", ")">>,
     <<"f", "l", "o", "o", "r", "(", "-", "1", "/", "2", ")">>, <<"c", "e", "i", "l", "(", "-", "1", "/", "2", ")">>, <<"f", "l", "o", "o", "r", "(", "1", "/", "2", ")">>, <<"c", "e", "i", "l", "(", "1", "/", "2", ")">>, <<"f", "l", "o", "o", "r", "(", "n", ")">>,
     <<"c", "e", "i", "l", "(", "n", ")">>, <<"f", "l", "o", "o", "r", "(", "n", "/", "-", "2", ")">>, <<"c", "e", "i", "l", "(", "n", "/", "-", "2", ")">>, <<"c", "e", "i", "l", "(", "(", "n", "+", "1", ")", "/", "2", ")">>}


\* sqrtint of squares, of their neighbours and of negative numbers
SqrtintInputs ==
    {<<"s", "q", "r", "t", "i", "n", "t", "(", "n", ")">>, <<"s", "q", "r", "t", "i", "n", "t", "(", "n", "*", "n", "+", "1", ")">>, <<"s", "q", "r", "t", "i", "n", "t", "(", "n", "*", "n", "-", "1", ")">>, <<"s", "q", "r", "t", "i", "n", "t", "(", "n", "*", "n", "+", "2", "*", "n", ")">>,
     <<"s", "q", "r", "t", "i", "n", "t", "(", "n", "*", "n", "*", "n", ")">>, <<"s", "q", "r", "t", "i", "n", "t", "(", "-", "n", "*", "n", ")">>, <<"s", "q", "r", "t", "i", "n", "t", "(", "n", "-", "3", ")">>, <<"s", "q", "r", "t", "i", "n", "t", "(", "0", ")">>}


\* powers with the exponents 0 and 1
PowerInputs == {<<"n", "^", "0">>, <<"n", "^", "1">>, <<"(", "n", ")", "^", "1">>, <<"0", "^", "0">>, <<"(", "-", "n", ")", "^", "1">>, <<"n", "^", "0", "1">>, <<"n", "^", "0", "0">>}


\* inputs with whitespace, '.', ';' and other characters around and inside
\* an expression
SanitizerInputs ==
    {<<" ", ".", ";", " ">>, <<";">>, <<" ", "n", "+", "1", ";", ".", " ">>, <<"n", ";", ";", ".", ".">>, <<"n", ".", "n">>, <<"n", ";", "n">>, <<".", " ", "n">>, <<"n", " ", ".", ";">>,
     <<"n", "+", "1", " ", ";">>, <<"n", "#">>, <<"n", "=", "1">>, <<"n", "!">>, <<"n", "%", "2">>, <<"n", "[", "1", "]">>, <<"n", "_", "1">>,
     <<"\t", "n", "\n">>, <<"n", "\t", "+", "\n", "1">>, <<"F", "l", "o", "o", "r", "(", " ", "N", " ", ")", ".">>}


\* n a 2 b 3 for two binary operators a and b
Chain(a, b) == <<"n", a, "2", b, "3">>

\* chains of two binary operators without parentheses
ChainInputs ==
    {Chain(a, b) : a \in {"+", "-", "*", "/"}, b \in {"+", "-", "*", "/"}}
        \cup {<<"8", "-", "3", "-", "2">>, <<"8", "/", "4", "/", "2">>, <<"2", "+", "3", "*", "4">>, <<"8", "-", "(", "3", "-", "2", ")">>, <<"8", "/", "(", "4", "/", "2", ")">>, <<"(", "2", "+", "3", ")", "*", "4">>,
              <<"2", "*", "3", "+", "4">>, <<"8", "/", "n", "/", "2">>, <<"8", "-", "n", "-", "2">>, <<"8", "/", "4", "*", "n">>}

Inputs ==
    ChunkStrings(MaxChunks) \cup Catalog \cup BinomialInputs \cup DeepInputs
        \cup TrailingInputs \cup ArityInputs \cup HalfInputs
        \cup SumdigitsInputs \cup GcdInputs
        \cup FloorCeilInputs \cup SqrtintInputs
        \cup PowerInputs \cup SanitizerInputs \cup ChainInputs

SeqIds == {"A000045", "A000290"}
Sources == {"oeis", "loda"}

\* formulas the threads share: evaluations that succeed for every n, and
\* evaluations that raise for some n
ThreadInputs ==
    {<<"n">>, <<"n", "/", "2">>, <<"1", "/", "n">>, <<"-", "n", "^", "2">>, <<"f", "l", "o", "o", "r", "(", "n", ",", "2", ")">>, <<"s", "q", "r", "t", "i", "n", "t", "(", "n", ")">>,
     <<"b", "i", "n", "o", "m", "i", "a", "l", "(", "n", ",", "2", ")">>, <<"(", "n", "*", "(", "n", "+", "1", ")", ")", "/", "2">>}

Threads == 1..NumThreads

\* a thread outside evaluate
Idle == [pc |-> "idle", n |-> 0, node |-> None, result |-> None]

\* ------------------------------------------------------------------------
\* The state machine: one parse_expression call on an input, then any
\* number of evaluate calls on the formula it returned
\* ------------------------------------------------------------------------

\* ------------------------------------------------------------------------
\* data_fetcher.py: the files of data_dir and of loda_home/seqs/oeis
\* ------------------------------------------------------------------------

\* core_files, in the order of the dict
CoreNames == <<"names", "offsets", "stripped">>
CoreFiles == {CoreNames[k] : k \in 1..Len(CoreNames)}

\* DataPaths.formulas_loda and DataPaths.formulas_oeis
formulas_loda == "formulas-loda.txt"
formulas_oeis == "formulas-oeis.txt"

\* the five files of DataPaths
DataFiles == CoreFiles \cup {formulas_loda, formulas_oeis}

\* the directories and files a call finds: whether data_dir exists, which
\* of its five files exist, whether loda_home/seqs/oeis exists and which
\* of the three exports it holds
Disks ==
    {[data_dir |-> d, files |-> fs, seqs_dir |-> sd, seqs |-> ss] :
        d \in BOOLEAN, fs \in SUBSET DataFiles, sd \in BOOLEAN,
        ss \in {{}, {"names", "stripped"}, CoreFiles}}

\* a file needs its directory
Mounted(d) == (d.files # {} => d.data_dir) /\ (d.seqs # {} => d.seqs_dir)

\* the callables a test passes in: a runner that writes stdout_path when it
\* gets one and a runner that only records; an exporter and a downloader
\* that write their destination, and ones that write nothing; no
\* export_formulas argument gives the exporter of line 96
Runners == {"writing", "recording"}
Downloaders == {"writing", "silent"}
Exporters == {"default", "writing", "silent"}

\* the arguments of prepare_data
Args ==
    [force : BOOLEAN, run_if_missing : BOOLEAN, dry_run : BOOLEAN,
     runner : Runners, downloader : Downloaders, export_formulas : Exporters]

\* no call of prepare_data: the state of the file system group where
\* the fetcher takes no part
NoFetch ==
    /\ disk = [data_dir |-> FALSE, files |-> {}, seqs_dir |-> FALSE, seqs |-> {}]
    /\ call_args = None
    /\ before = None
    /\ previous = "none"
    /\ report = None
    /\ fetch_exc = ""
    /\ invoked = <<>>
    /\ written = <<>>

\* ------------------------------------------------------------------------
\* data.py: the deny lists and the parsing of one line of a corpus file
\* ------------------------------------------------------------------------

DENYLIST_OEIS ==
    {<<"A", "1", "0", "3", "3", "2", "0">>, <<"A", "1", "6", "6", "9", "3", "1">>,
     <<"A", "1", "9", "0", "4", "1", "4">>, <<"A", "1", "9", "4", "7", "6", "9">>,
     <<"A", "2", "0", "0", "4", "3", "7">>, <<"A", "2", "1", "3", "5", "6", "2">>,
     <<"A", "2", "1", "3", "5", "6", "5">>, <<"A", "2", "1", "3", "8", "2", "6">>,
     <<"A", "2", "1", "3", "8", "4", "6">>, <<"A", "2", "1", "7", "8", "8", "3">>,
     <<"A", "2", "1", "7", "9", "5", "4">>, <<"A", "2", "2", "1", "5", "3", "3">>,
     <<"A", "2", "3", "8", "8", "1", "2">>, <<"A", "2", "4", "2", "7", "0", "9">>,
     <<"A", "2", "5", "0", "8", "8", "4">>, <<"A", "2", "7", "7", "6", "3", "6">>,
     <<"A", "2", "8", "1", "9", "0", "7">>, <<"A", "2", "9", "7", "8", "9", "5">>,
     <<"A", "2", "9", "9", "9", "6", "5">>, <<"A", "3", "0", "2", "7", "5", "8">>,
     <<"A", "3", "0", "3", "4", "0", "0">>, <<"A", "3", "4", "3", "0", "7", "3">>,
     <<"A", "3", "4", "9", "4", "1", "7">>, <<"A", "3", "4", "9", "9", "1", "9">>,
     <<"A", "3", "5", "2", "7", "5", "8">>, <<"A", "3", "5", "5", "7", "5", "3">>,
     <<"A", "3", "6", "0", "4", "1", "6">>, <<"A", "3", "7", "4", "6", "2", "2">>,
     <<"A", "3", "7", "8", "9", "2", "2">>, <<"A", "3", "7", "9", "7", "2", "6">>,
     <<"A", "3", "8", "5", "7", "3", "0">>}

DENYLIST_LODA ==
    {<<"A", "0", "9", "2", "1", "8", "1">>, <<"A", "2", "5", "3", "9", "4", "2">>,
     <<"A", "3", "4", "9", "4", "1", "7">>, <<"A", "3", "6", "0", "4", "1", "6">>,
     <<"A", "3", "8", "5", "7", "3", "0">>, <<"A", "3", "9", "0", "8", "6", "0">>}

\* the characters \w matches
WordChars == Letters \cup Digits \cup {"_"}

\* Positions in a text s are counted from 1; position p is the place in
\* front of s[p], and Len(s) + 1 is the end of the text.

\* s[p] exists and is in cls
Is(s, p, cls) == p >= 1 /\ p <= Len(s) /\ s[p] \in cls

\* the text w stands at position p of s
At(s, p, w) == p >= 1 /\ p + Len(w) - 1 <= Len(s) /\ SubSeq(s, p, p + Len(w) - 1) = w

\* \b at position p
Boundary(s, p) == Is(s, p - 1, WordChars) # Is(s, p, WordChars)

\* the position after \s* from p
Spaces(s, p) == RunEnd(s, p, Whitespace)

\* \bw\b at position p
WordAt(s, p, w) == Boundary(s, p) /\ At(s, p, w) /\ Boundary(s, p + Len(w))

\* the position after a match of \bfor\s+n at p, or 0
ForN(s, p) ==
    IF Boundary(s, p) /\ At(s, p, <<"f", "o", "r">>) /\ Spaces(s, p + 3) > p + 3
           /\ Is(s, Spaces(s, p + 3), {"n"})
    THEN Spaces(s, p + 3) + 1
    ELSE 0

\* the position after a match of (?:[<>]=?|!=) at p, or 0
CompareEnd(s, p) ==
    IF Is(s, p, {"<", ">"}) THEN (IF Is(s, p + 1, {"="}) THEN p + 2 ELSE p + 1)
    ELSE IF At(s, p, <<"!", "=">>) THEN p + 2
    ELSE 0

\* -?\d+ matches at p
NumberAt(s, p) == Is(s, IF Is(s, p, {"-"}) THEN p + 1 ELSE p, Digits)

\* re.search(r'\bfor\s+n\s*(?:[<>]=?|!=)\s*-?\d+\s*[,;]?', s)
DomainRestriction(s) ==
    \E p \in 1..Len(s) :
        /\ ForN(s, p) > 0
        /\ CompareEnd(s, Spaces(s, ForN(s, p))) > 0
        /\ NumberAt(s, Spaces(s, CompareEnd(s, Spaces(s, ForN(s, p)))))

\* re.search(r'\bfor\s+n\s+mod\s+', s)
ModularConstraint(s) ==
    \E p \in 1..Len(s) :
        /\ ForN(s, p) > 0
        /\ Spaces(s, ForN(s, p)) > ForN(s, p)
        /\ At(s, Spaces(s, ForN(s, p)), <<"m", "o", "d">>)
        /\ Spaces(s, Spaces(s, ForN(s, p)) + 3) > Spaces(s, ForN(s, p)) + 3

\* (\s*\+\s*\d+)?\b matches at p
CongruenceTail(s, p) ==
    \/ Boundary(s, p)
    \/ /\ Is(s, Spaces(s, p), {"+"})
       /\ Is(s, Spaces(s, Spaces(s, p) + 1), Digits)
       /\ Boundary(s, RunEnd(s, Spaces(s, Spaces(s, p) + 1), Digits))

\* \s*=\s*\d+\s*m(\s*\+\s*\d+)?\b matches at p
CongruenceAt(s, p) ==
    /\ Is(s, Spaces(s, p), {"="})
    /\ Is(s, Spaces(s, Spaces(s, p) + 1), Digits)
    /\ Is(s, Spaces(s, RunEnd(s, Spaces(s, Spaces(s, p) + 1), Digits)), {"m"})
    /\ CongruenceTail(s, Spaces(s, RunEnd(s, Spaces(s, Spaces(s, p) + 1), Digits)) + 1)

\* re.search(r'\bfor\s+n\s*=\s*\d+\s*m(\s*\+\s*\d+)?\b', s)
LinearCongruence(s) ==
    \E p \in 1..Len(s) : ForN(s, p) > 0 /\ CongruenceAt(s, ForN(s, p))

\* no ',' in s from position p up to position q - 1
NoComma(s, p, q) == \A k \in p..(q - 1) : s[k] # ","

\* re.search(r'\bfor\b[^,]{0,80}\bn\b[^,]{0,10},', s)
NaturalLanguageCondition(s) ==
    \E p \in 1..Len(s) :
        /\ WordAt(s, p, <<"f", "o", "r">>)
        /\ \E j \in (p + 3)..Len(s) :
              /\ j - (p + 3) <= 80
              /\ NoComma(s, p + 3, j)
              /\ WordAt(s, j, <<"n">>)
              /\ \E k \in (j + 1)..Len(s) :
                    k - (j + 1) <= 10 /\ NoComma(s, j + 1, k) /\ s[k] = ","

\* re.search(r'\bif\b.*\bthen\b', s)
IfThen(s) ==
    \E p \in 1..Len(s) : \E j \in (p + 2)..Len(s) :
        WordAt(s, p, <<"i", "f">>) /\ WordAt(s, j, <<"t", "h", "e", "n">>)

\* re.search(r'\b(diagonal|column|row)\b', s)
TableFormula(s) ==
    \E p \in 1..Len(s) : \E w \in {<<"d", "i", "a", "g", "o", "n", "a", "l">>, <<"c", "o", "l", "u", "m", "n">>, <<"r", "o", "w">>} : WordAt(s, p, w)

\* re.search(r'\bfor\s+n\s*[<>!=]', s)
TrailingRestriction(s) ==
    \E p \in 1..Len(s) :
        ForN(s, p) > 0 /\ Is(s, Spaces(s, ForN(s, p)), {"<", ">", "!", "="})

\* re.search(r'\bfor\s+n\s+mod\b', s)
TrailingModular(s) ==
    \E p \in 1..Len(s) :
        /\ ForN(s, p) > 0
        /\ Spaces(s, ForN(s, p)) > ForN(s, p)
        /\ At(s, Spaces(s, ForN(s, p)), <<"m", "o", "d">>)
        /\ Boundary(s, Spaces(s, ForN(s, p)) + 3)

\* the positions at which a\(n\)\s*= matches, whatever the case
FormulaStarts(text) ==
    {p \in 1..Len(text) :
        At(Lower(text), p, <<"a", "(", "n", ")">>) /\ Is(text, Spaces(text, p + 4), {"="})}

\* OEIS_FORMULA_RE.search(text): the first match, as the position it
\* starts at and the position after it, or None
OEIS_FORMULA_RE_search(text) ==
    IF FormulaStarts(text) = {} THEN None
    ELSE LET p == CHOOSE q \in FormulaStarts(text) : \A o \in FormulaStarts(text) : q <= o
         IN  [start |-> p, end |-> Spaces(text, p + 4) + 1]

\* the class of the fullmatch of _parse_oeis_formula_text: [0-9nN\+\-\*\^\(\)/\s]
OeisAllowed == Digits \cup {"n", "N", "+", "-", "*", "^", "(", ")", "/"} \cup Whitespace

\* re.search(r"\^([1-9]\d+)", e)
HighDegree(e) ==
    \E p \in 1..Len(e) :
        e[p] = "^" /\ Is(e, p + 1, Digits \ {"0"}) /\ Is(e, p + 2, Digits)

\* the tests of _parse_oeis_formula_text on the expression e, and the parse
oeis_expression(seq_id, e) ==
    IF Len(e) = 0 \/ \E k \in 1..Len(e) : e[k] \notin OeisAllowed THEN None
    ELSE IF "n" \notin {Lower(e)[k] : k \in 1..Len(e)} THEN None
    ELSE IF HighDegree(e) THEN None
    ELSE IF \A k \in 1..Len(e) : e[k] \notin {"+", "*", "^"} THEN None
    ELSE build_formula(seq_id, "oeis", e, CallerDepth + 3).ret

\* the tests of _parse_oeis_formula_text on what stands in front of the
\* match m and after it
oeis_formula_at(seq_id, text, m) ==
    LET prefix == Lower(SubSeq(text, 1, m.start - 1))
        suffix == Lower(SubSeq(text, m.end, Len(text)))
    IN  IF DomainRestriction(prefix) \/ ModularConstraint(prefix)
               \/ LinearCongruence(prefix) \/ NaturalLanguageCondition(prefix)
               \/ IfThen(prefix) \/ TableFormula(prefix) THEN None
        ELSE IF TrailingRestriction(suffix) \/ TrailingModular(suffix) THEN None
        ELSE oeis_expression(seq_id,
                             RStripSet(Strip(SubSeq(text, m.end, Len(text))), {".", ";"}))

\* _parse_oeis_formula_text(seq_id, text, parser): a formula or None.  The
\* lines of the model nest far less than RecursionLimit, parse_expression
\* returns on them.
parse_oeis_formula_text(seq_id, text) ==
    IF OEIS_FORMULA_RE_search(text) = None THEN None
    ELSE oeis_formula_at(seq_id, text, OEIS_FORMULA_RE_search(text))

\* OEIS_HEADER_RE.match(line): ^(A\d{6}):\s*(.+)$ gives the groups 1 and 2,
\* or None
OEIS_HEADER_RE_match(line) ==
    IF /\ Len(line) >= 9
       /\ line[1] = "A"
       /\ \A k \in 2..7 : line[k] \in Digits
       /\ line[8] = ":"
       /\ \A k \in 9..Len(line) : line[k] # "\n"
    THEN [id |-> SubSeq(line, 1, 7),
          remainder |-> IF Spaces(line, 9) > Len(line) THEN <<line[Len(line)]>>
                        ELSE SubSeq(line, Spaces(line, 9), Len(line))]
    ELSE None

\* LODA_LINE_RE.match(s): ^(A\d{6}):\s*a\(n\)\s*=\s*(.+)$ whatever the case,
\* gives the groups 1 and 2, or None
LODA_LINE_RE_match(s) ==
    IF /\ Len(s) >= 8
       /\ LowerChar(s[1]) = "a"
       /\ \A k \in 2..7 : s[k] \in Digits
       /\ s[8] = ":"
       /\ At(Lower(s), Spaces(s, 9), <<"a", "(", "n", ")">>)
       /\ Is(s, Spaces(s, Spaces(s, 9) + 4), {"="})
       /\ Spaces(s, Spaces(s, Spaces(s, 9) + 4) + 1) <= Len(s)
       /\ \A k \in 1..Len(s) : s[k] # "\n"
    THEN [id |-> SubSeq(s, 1, 7),
          expr |-> SubSeq(s, Spaces(s, Spaces(s, Spaces(s, 9) + 4) + 1), Len(s))]
    ELSE None

\* re.search(r'\ba\(\d+\)\s*=', e)
InitialTerms(e) ==
    \E p \in 1..Len(e) :
        /\ Boundary(e, p)
        /\ At(e, p, <<"a", "(">>)
        /\ Is(e, p + 2, Digits)
        /\ Is(e, RunEnd(e, p + 2, Digits), {")"})
        /\ Is(e, Spaces(e, RunEnd(e, p + 2, Digits) + 1), {"="})

\* the scan of _parse_loda_line for the first comma at parenthesis depth
\* zero, from position idx: its position, or 0 for cut_idx None
RECURSIVE cut_idx(_, _, _)
cut_idx(e, idx, depth) ==
    IF idx > Len(e) THEN 0
    ELSE IF e[idx] = "(" THEN cut_idx(e, idx + 1, depth + 1)
    ELSE IF e[idx] = ")" THEN cut_idx(e, idx + 1, IF depth > 0 THEN depth - 1 ELSE 0)
    ELSE IF e[idx] = "," /\ depth = 0 THEN idx
    ELSE cut_idx(e, idx + 1, depth)

\* the rest of _parse_loda_line after the match m
loda_formula_of(m) ==
    IF InitialTerms(m.expr) THEN None
    ELSE IF cut_idx(m.expr, 1, 0) > 0
    THEN build_formula(m.id, "loda", Strip(SubSeq(m.expr, 1, cut_idx(m.expr, 1, 0) - 1)),
                       CallerDepth + 3).ret
    ELSE build_formula(m.id, "loda", m.expr, CallerDepth + 3).ret

\* _parse_loda_line(line, parser): a formula or None
parse_loda_line(line) ==
    IF LODA_LINE_RE_match(Strip(line)) = None THEN None
    ELSE loda_formula_of(LODA_LINE_RE_match(Strip(line)))

\* current_id of iter_oeis_formulas: None, or a sequence id
NoId == [none |-> TRUE]
Id(i) == [id |-> i]

\* the lines a corpus file of the model is made of
CorpusLines ==
    {<<"A", "1", "0", "3", "3", "2", "0", ":", " ", "a", "(", "n", ")", " ", "=", " ", "2", "*", "n">> \o <<"\n">>,
     <<"A", "0", "0", "0", "2", "9", "0", ":", " ", "a", "(", "n", ")", " ", "=", " ", "n", "^", "2", ".">> \o <<"\n">>,
     <<" ", " ", "a", "(", "n", ")", " ", "=", " ", "n", "*", "n">> \o <<"\n">>,
     <<"A", "0", "9", "2", "1", "8", "1", ":", " ", "a", "(", "n", ")", " ", "=", " ", "n", "*", "(", "n", "+", "1", ")">> \o <<"\n">>,
     <<"A", "1", "0", "3", "3", "2", "0", ":">> \o <<"\n">>,
     <<"a", "0", "9", "2", "1", "8", "1", ":", " ", "a", "(", "n", ")", " ", "=", " ", "n", "+", "1">> \o <<"\n">>,
     <<" ", " ", "F", "o", "r", " ", "n", ">", "1", ",", " ", "a", "(", "n", ")", " ", "=", " ", "2", "*", "n">> \o <<"\n">>,
     <<"A", "0", "0", "0", "2", "9", "0", ":", " ", "a", "(", "n", ")", " ", "=", " ", "n", "*", "n", ",", " ", "n", ">", "0">> \o <<"\n">>}

\* the files of at most k lines
RECURSIVE CorpusFiles(_)
CorpusFiles(k) ==
    IF k = 0 THEN {<<>>}
    ELSE CorpusFiles(k - 1)
            \cup {Append(f, l) : f \in {g \in CorpusFiles(k - 1) : Len(g) = k - 1},
                                 l \in CorpusLines}

\* no iterator: the state of the corpus group where it takes no part
NoCorpus ==
    /\ iterator = ""
    /\ handle = <<>>
    /\ lines_read = 0
    /\ current_id = NoId
    /\ yielded = <<>>

\* every literal exponent of the AST is at most MaxPow
RECURSIVE SmallPowers(_)
SmallPowers(node) ==
    IF node.type = "BinNode"
    THEN /\ SmallPowers(node.left)
         /\ SmallPowers(node.right)
         /\ (node.op = "^" => (node.right.type = "NumNode" /\ node.right.value <= MaxPow))
    ELSE IF node.type = "UnaryNode" THEN SmallPowers(node.operand)
    ELSE IF node.type = "FuncNode"
    THEN \A k \in 1..Len(node.args) : SmallPowers(node.args[k])
    ELSE TRUE

Init ==
    /\ expr \in Inputs
    /\ pc = "start"
    /\ formula = None
    /\ raised = ""
    /\ n_arg = 0
    /\ value = None
    /\ seq_id_arg = ""
    /\ source_arg = ""
    /\ threads = [t \in Threads |-> Idle]
    /\ NoFetch
    /\ NoCorpus

\* the call of parse_expression ends with the result r of _build_formula
Returns(r) ==
    /\ formula' = r.ret
    /\ raised' = r.exc
    /\ pc' = IF r.exc = "" THEN "parsed" ELSE "raised"

\* FormulaParser.parse_expression(seq_id, source, expr)
parse_expression ==
    /\ pc = "start"
    /\ seq_id_arg' \in SeqIds
    /\ source_arg' \in Sources
    /\ Returns(build_formula(seq_id_arg', source_arg', expr, CallerDepth + 1))
    /\ UNCHANGED <<expr, n_arg, value>>
    /\ UNCHANGED <<thread_vars, fetch_vars, corpus_vars>>

\* ParsedFormula.evaluate(n) on the formula parse_expression returned
Evaluate(n) ==
    /\ pc \in {"parsed", "evaluated"}
    /\ formula # None
    /\ SmallPowers(formula.node)
    /\ n_arg' = n
    /\ value' = evaluate(formula, n)
    /\ pc' = "evaluated"
    /\ UNCHANGED <<expr, formula, raised, seq_id_arg, source_arg>>
    /\ UNCHANGED <<thread_vars, fetch_vars, corpus_vars>>

Next ==
    \/ parse_expression
    \/ \E n \in -MaxN..MaxN : Evaluate(n)

Spec == Init /\ [][Next]_vars

\* ------------------------------------------------------------------------
\* Threads: one parse_expression call, then evaluate calls on the formula
\* from several threads, interleaved
\* ------------------------------------------------------------------------

\* the AST with every VarNode replaced by NumNode(n)
RECURSIVE Bound(_, _)
Bound(node, n) ==
    IF node.type = "VarNode" THEN NumNode(n)
    ELSE IF node.type = "BinNode"
    THEN BinNode(node.op, Bound(node.left, n), Bound(node.right, n))
    ELSE IF node.type = "UnaryNode" THEN UnaryNode(node.op, Bound(node.operand, n))
    ELSE IF node.type = "FuncNode"
    THEN FuncNode(node.name, [k \in 1..Len(node.args) |-> Bound(node.args[k], n)])
    ELSE node

\* an evaluate that binds n in the AST of the formula it is called on: a
\* variant of self_after_evaluate under which C21 fails
self_after_evaluate_binding(self, n) == [self EXCEPT !.node = Bound(self.node, n)]

\* the formula after ParsedFormula.evaluate(n) has run on it: the method
\* and _eval_node assign no attribute of the formula or of a node
self_after_evaluate(self, n) == self

InitThreads ==
    /\ expr \in ThreadInputs
    /\ pc = "start"
    /\ formula = None
    /\ raised = ""
    /\ n_arg = 0
    /\ value = None
    /\ seq_id_arg = ""
    /\ source_arg = ""
    /\ threads = [t \in Threads |-> Idle]
    /\ NoFetch
    /\ NoCorpus

\* thread t calls formula.evaluate(n): the call reads self.node and passes
\* it to _eval_node
thread_call(t, n) ==
    /\ pc = "parsed"
    /\ formula # None
    /\ threads[t].pc = "idle"
    /\ threads' = [threads EXCEPT ![t] =
                      [pc |-> "running", n |-> n, node |-> formula.node, result |-> None]]
    /\ UNCHANGED <<parser_vars, fetch_vars, corpus_vars>>

\* _eval_node and the rest of evaluate run in thread t, to the return or
\* to the exception
thread_evaluate(t) ==
    /\ threads[t].pc = "running"
    /\ threads' = [threads EXCEPT ![t].pc = "returned",
                                 ![t].result = normalized(eval_node(threads[t].node,
                                                                    threads[t].n))]
    /\ formula' = self_after_evaluate(formula, threads[t].n)
    /\ UNCHANGED <<expr, pc, raised, n_arg, value, seq_id_arg, source_arg>>
    /\ UNCHANGED <<fetch_vars, corpus_vars>>

\* thread t drops the result and is ready for its next call
thread_done(t) ==
    /\ threads[t].pc = "returned"
    /\ threads' = [threads EXCEPT ![t] = Idle]
    /\ UNCHANGED <<parser_vars, fetch_vars, corpus_vars>>

NextThreads ==
    \/ parse_expression
    \/ \E t \in Threads : \E n \in -ThreadN..ThreadN : thread_call(t, n)
    \/ \E t \in Threads : thread_evaluate(t)
    \/ \E t \in Threads : thread_done(t)

SpecThreads == InitThreads /\ [][NextThreads]_vars

\* ------------------------------------------------------------------------
\* prepare_data: calls on a data directory, one after the other
\* ------------------------------------------------------------------------

\* Path.exists for a file of data_dir
exists(d, f) == f \in d.files

\* a call in progress: the file system, the three lists of the report, the
\* calls made to the injected callables, the files written, and the
\* exception that ended it
Entered(d) ==
    [disk |-> d, created |-> <<>>, skipped |-> <<>>, commands |-> <<>>,
     invoked |-> <<>>, written |-> <<>>, exc |-> ""]

\* a file of data_dir is written
write(r, f) ==
    [r EXCEPT !.disk.files = @ \cup {f}, !.written = Append(@, f)]

FileNotFoundError(r) == [r EXCEPT !.exc = "FileNotFoundError"]

mark_created(r, path) == [r EXCEPT !.created = Append(@, path)]

mark_skipped(r, reason, path) ==
    [r EXCEPT !.skipped = Append(@, [reason |-> reason, path |-> path])]

\* run_cmd(cmd, stdout_path) with the injected runner; stdout_path "" is None
run_cmd(a, r, cmd, stdout_path) ==
    LET called == [r EXCEPT !.invoked =
                       Append(@, [fn |-> "runner", cmd |-> cmd, path |-> stdout_path])]
    IN  IF a.runner = "writing" /\ stdout_path # "" THEN write(called, stdout_path)
        ELSE called

maybe_run_update(a, r) ==
    LET cmd == <<"loda", "update">>
        listed == [r EXCEPT !.commands = Append(@, cmd)]
    IN  IF ~a.dry_run THEN run_cmd(a, listed, cmd, "") ELSE listed

\* a loop over core_files that copies and does not list the copy in
\* created: a variant of copy_core_files under which C23 fails
RECURSIVE copy_missing_unlisted(_, _, _)
copy_missing_unlisted(a, r, k) ==
    IF k > Len(CoreNames) THEN r
    ELSE LET key == CoreNames[k]
         IN  IF key \notin r.disk.seqs THEN FileNotFoundError(r)
             ELSE IF a.dry_run
             THEN copy_missing_unlisted(a, mark_skipped(r, "would copy", key), k + 1)
             ELSE copy_missing_unlisted(a, write(r, key), k + 1)

\* the for loop over core_files from its k-th entry
RECURSIVE copy_core_files(_, _, _)
copy_core_files(a, r, k) ==
    IF k > Len(CoreNames) THEN r
    ELSE LET key == CoreNames[k]
         IN  IF key \notin r.disk.seqs THEN FileNotFoundError(r)
             ELSE IF a.dry_run
             THEN copy_core_files(a, mark_skipped(r, "would copy", key), k + 1)
             ELSE copy_core_files(a, mark_created(write(r, key), key), k + 1)

core_needed(a, r) == a.force \/ \E p \in CoreFiles : ~exists(r.disk, p)

\* copy names/offsets/stripped if needed
core_step(a, r) ==
    IF core_needed(a, r) /\ a.run_if_missing
    THEN IF ~r.disk.seqs_dir THEN FileNotFoundError(r)
         ELSE copy_core_files(a, maybe_run_update(a, r), 1)
    ELSE mark_skipped(r, "core files already present", "")

\* _export_loda_formulas(dst, runner)
export_loda_formulas(a, r, dst) == run_cmd(a, r, <<"loda", "export-formulas">>, dst)

\* export_fn(dst)
export_fn(a, r, dst) ==
    LET called == [r EXCEPT !.invoked =
                       Append(@, [fn |-> "export_formulas", cmd |-> <<>>, path |-> dst])]
    IN  IF a.export_formulas = "default" THEN export_loda_formulas(a, called, dst)
        ELSE IF a.export_formulas = "writing" THEN write(called, dst)
        ELSE called

\* download_fn(dst)
download_fn(a, r, dst) ==
    LET called == [r EXCEPT !.invoked =
                       Append(@, [fn |-> "downloader", cmd |-> <<>>, path |-> dst])]
    IN  IF a.downloader = "writing" THEN write(called, dst) ELSE called

\* an export step that does not look for the file: a variant of
\* export_step under which C24 fails
export_step_always(a, r) ==
    IF r.exc # "" THEN r
    ELSE LET listed == [r EXCEPT !.commands = Append(@, <<"loda", "export-formulas">>)]
         IN  IF a.dry_run
             THEN mark_skipped(listed, "would run loda export-formulas", formulas_loda)
             ELSE mark_created(export_fn(a, listed, formulas_loda), formulas_loda)

\* export LODA formulas
export_step(a, r) ==
    IF r.exc # "" THEN r
    ELSE IF a.force \/ ~exists(r.disk, formulas_loda)
    THEN LET listed == [r EXCEPT !.commands = Append(@, <<"loda", "export-formulas">>)]
         IN  IF a.dry_run
             THEN mark_skipped(listed, "would run loda export-formulas", formulas_loda)
             ELSE mark_created(export_fn(a, listed, formulas_loda), formulas_loda)
    ELSE mark_skipped(r, "formulas-loda.txt already present", "")

\* download OEIS formulas
download_step(a, r) ==
    IF r.exc # "" THEN r
    ELSE IF a.force \/ ~exists(r.disk, formulas_oeis)
    THEN IF a.dry_run THEN mark_skipped(r, "would download", formulas_oeis)
         ELSE mark_created(download_fn(a, r, formulas_oeis), formulas_oeis)
    ELSE mark_skipped(r, "formulas-oeis.txt already present", "")

\* data_dir.mkdir(parents=True, exist_ok=True)
mkdir(r) == [r EXCEPT !.disk.data_dir = TRUE]

\* the body of prepare_data on the file system d
prepare_data_body(a, d) ==
    download_step(a, export_step(a, core_step(a, mkdir(Entered(d)))))

FetchReport(r) == [created |-> r.created, skipped |-> r.skipped, commands |-> r.commands]

\* the call did all a call can do: it returned, it was no dry run, the
\* core step was allowed to run, and what it called wrote its destination
Complete(a, r) ==
    /\ r.exc = ""
    /\ ~a.dry_run
    /\ a.run_if_missing
    /\ a.downloader = "writing"
    /\ \/ a.export_formulas = "writing"
       \/ a.export_formulas = "default" /\ a.runner = "writing"

\* the call ends with r
Ends(a, r) ==
    /\ call_args' = a
    /\ before' = disk
    /\ previous' = IF call_args = None THEN "none"
                   ELSE IF report # None /\ Complete(call_args, [exc |-> fetch_exc])
                        THEN "complete" ELSE "other"
    /\ disk' = r.disk
    /\ report' = IF r.exc = "" THEN FetchReport(r) ELSE None
    /\ fetch_exc' = r.exc
    /\ invoked' = r.invoked
    /\ written' = r.written

InitFetch ==
    /\ expr = <<>>
    /\ pc = "start"
    /\ formula = None
    /\ raised = ""
    /\ n_arg = 0
    /\ value = None
    /\ seq_id_arg = ""
    /\ source_arg = ""
    /\ threads = [t \in Threads |-> Idle]
    /\ disk \in {d \in Disks : Mounted(d)}
    /\ call_args = None
    /\ before = None
    /\ previous = "none"
    /\ report = None
    /\ fetch_exc = ""
    /\ invoked = <<>>
    /\ written = <<>>
    /\ NoCorpus

\* prepare_data(data_dir, loda_home, force, run_if_missing, dry_run, runner,
\* downloader, export_formulas)
prepare_data(a) ==
    /\ Ends(a, prepare_data_body(a, disk))
    /\ UNCHANGED <<parser_vars, thread_vars, corpus_vars>>

NextFetch == \E a \in Args : prepare_data(a)

SpecFetch == InitFetch /\ [][NextFetch]_vars

\* ------------------------------------------------------------------------
\* iter_loda_formulas and iter_oeis_formulas: one iterator over one file,
\* a step for each line it reads
\* ------------------------------------------------------------------------

\* one pass of a loop body: the current_id it leaves and the formula it
\* yields, None when it yields nothing
Pass(cur, out) == [current_id |-> cur, out |-> out]

\* the body of the loop of iter_loda_formulas on raw_line
loda_line(cur, raw_line) ==
    IF parse_loda_line(raw_line) = None THEN Pass(cur, None)
    ELSE IF parse_loda_line(raw_line).sequence_id \in DENYLIST_LODA THEN Pass(cur, None)
    ELSE Pass(cur, parse_loda_line(raw_line))

\* a deny-listed header that leaves its id in current_id: a variant of
\* denied_header under which C30 fails
denied_header_keeps_id(seq_id) == Pass(Id(seq_id), None)

\* a header line with a deny-listed id: current_id = None, continue
denied_header(seq_id) == Pass(NoId, None)

\* a header line, with the groups of its match
oeis_header(seq_match) ==
    IF seq_match.id \in DENYLIST_OEIS THEN denied_header(seq_match.id)
    ELSE Pass(Id(seq_match.id),
              parse_oeis_formula_text(seq_match.id, Strip(seq_match.remainder)))

\* str.startswith("a(n) =")
StartsFormula(cont) == At(cont, 1, <<"a", "(", "n", ")", " ", "=">>)

\* a line that is no header
oeis_continuation(cur, line) ==
    IF cur # NoId /\ At(line, 1, <<" ", " ">>) /\ StartsFormula(Lower(Strip(line)))
    THEN Pass(cur, parse_oeis_formula_text(cur.id, Strip(line)))
    ELSE Pass(cur, None)

\* the body of the loop of iter_oeis_formulas on raw_line
oeis_line(cur, raw_line) ==
    IF OEIS_HEADER_RE_match(RStripSet(raw_line, {"\n"})) # None
    THEN oeis_header(OEIS_HEADER_RE_match(RStripSet(raw_line, {"\n"})))
    ELSE oeis_continuation(cur, RStripSet(raw_line, {"\n"}))

InitCorpus ==
    /\ expr = <<>>
    /\ pc = "start"
    /\ formula = None
    /\ raised = ""
    /\ n_arg = 0
    /\ value = None
    /\ seq_id_arg = ""
    /\ source_arg = ""
    /\ threads = [t \in Threads |-> Idle]
    /\ NoFetch
    /\ iterator \in {"loda", "oeis"}
    /\ handle \in CorpusFiles(MaxLines)
    /\ lines_read = 0
    /\ current_id = NoId
    /\ yielded = <<>>

\* the loop goes on with the result p of one pass
Passed(p) ==
    /\ lines_read' = lines_read + 1
    /\ current_id' = p.current_id
    /\ yielded' = IF p.out = None THEN yielded ELSE Append(yielded, p.out)
    /\ UNCHANGED <<iterator, handle>>
    /\ UNCHANGED <<parser_vars, thread_vars, fetch_vars>>

\* iter_loda_formulas reads its next line
iter_loda_formulas ==
    /\ iterator = "loda"
    /\ lines_read < Len(handle)
    /\ Passed(loda_line(current_id, handle[lines_read + 1]))

\* iter_oeis_formulas reads its next line
iter_oeis_formulas ==
    /\ iterator = "oeis"
    /\ lines_read < Len(handle)
    /\ Passed(oeis_line(current_id, handle[lines_read + 1]))

NextCorpus == iter_loda_formulas \/ iter_oeis_formulas

SpecCorpus == InitCorpus /\ [][NextCorpus]_vars

\* ------------------------------------------------------------------------
\* Properties
\* ------------------------------------------------------------------------

\* parse_expression has been called on expr
Called == pc # "start"

\* evaluate(n_arg) has been called on the formula of expr
Evaluated == pc = "evaluated"

\* C1: parse_expression never raises: whatever the input string, the call
\* returns, with None or with a formula.
C1_NeverRaises == Called => (pc # "raised" /\ raised = "")

\* the ordinary binomial coefficient by Pascal's rule
RECURSIVE Pascal(_, _)
Pascal(n, k) ==
    IF k < 0 \/ k > n THEN 0
    ELSE IF k = 0 \/ k = n THEN 1
    ELSE Pascal(n - 1, k - 1) + Pascal(n - 1, k)

\* the five-case generalized binomial coefficient
GeneralizedBinomial(n, k) ==
    IF n >= 0 THEN (IF 0 <= k /\ k <= n THEN Pascal(n, k) ELSE 0)
    ELSE IF k >= 0 THEN IPow(-1, k) * Pascal(k - n - 1, k)
    ELSE IF k <= n THEN IPow(-1, n - k) * Pascal(-k - 1, n - k)
    ELSE 0

\* the literal k of the input binomial(n,k)
BinomialK == CHOOSE k \in -MaxN..MaxN : expr = BinomialCall(k)

\* C2: binomial(n,k) is the five-case generalized binomial coefficient for
\* all signed n and k; binomial(n,0) = 1, binomial(-1,k) = (-1)^k for k >= 0,
\* and binomial(n,2) at n = 0..5 is 0, 0, 1, 3, 6, 10.
C2_GeneralizedBinomial ==
    (Evaluated /\ expr \in BinomialInputs) =>
        /\ value = Ok(PyInt(GeneralizedBinomial(n_arg, BinomialK)))
        /\ (BinomialK = 0 => value.val.num = 1)
        /\ (n_arg = -1 /\ BinomialK >= 0 => value.val.num = IPow(-1, BinomialK))
        /\ (BinomialK = 2 /\ n_arg \in 0..5 =>
                value.val.num = <<0, 0, 1, 3, 6, 10>>[n_arg + 1])

\* binomial(-3,3) = -10 has been evaluated: a row n < 0 <= k with odd k
C2_Witness ==
    /\ Evaluated
    /\ expr = BinomialCall(3)
    /\ n_arg = -3
    /\ value = Ok(PyInt(-10))

\* the formula build_formula returns for the text e, whatever the call's
\* sequence id and source
NodeOf(e) ==
    LET r == build_formula("A000045", "oeis", e, CallerDepth + 1)
    IN  IF r.ret = None THEN None ELSE r.ret.node

\* C3 as stated: `2*-n` is not representable, parse_expression returns no
\* formula for it.
C3_SignAfterMulRejected ==
    (Called /\ expr = <<"2", "*", "-", "n">>) => formula = None

\* C3 as amended: `2*-n` is representable, because factor is signed_power:
\* parse_expression returns BinaryOp('*', Number 2, UnaryOp('-', Variable))
\* for it (and the like for `2/-n`), which evaluates to -2n; a sign directly
\* after another sign or after '^' is what the grammar rejects.
C3_SignAfterMulAccepted ==
    /\ (Called /\ expr = <<"2", "*", "-", "n">>) =>
            /\ formula # None
            /\ formula.node = BinNode("*", NumNode(2), UnaryNode("-", VarNode))
            /\ (Evaluated => value = Ok(PyInt(-2 * n_arg)))
    /\ (Called /\ expr = <<"2", "/", "-", "n">>) =>
            /\ formula # None
            /\ formula.node = BinNode("/", NumNode(2), UnaryNode("-", VarNode))
    /\ (Called /\ expr \in {<<"-", "-", "n">>, <<"2", "^", "-", "2">>, <<"n", "^", "-", "1">>}) =>
            formula = None

\* `2*-n` has been parsed to a formula and evaluated at n = 3 to -6
C3_Witness ==
    /\ Evaluated
    /\ expr = <<"2", "*", "-", "n">>
    /\ formula # None
    /\ n_arg = 3
    /\ value = Ok(PyInt(-6))

\* the exact rational value of an AST at n: _eval_node with an exact '^'
exact_bin(op, left, right) ==
    IF op = "^" THEN Ok(Pow(left, right.num)) ELSE eval_bin(op, left, right)

RECURSIVE exact_node(_, _), exact_args(_, _, _)

exact_args(args, n, vals) ==
    IF Len(args) = 0 THEN [ok |-> TRUE, vals |-> vals]
    ELSE LET v == exact_node(Head(args), n)
         IN  IF ~v.ok THEN v ELSE exact_args(Tail(args), n, Append(vals, v.val))

exact_node(node, n) ==
    IF node.type = "NumNode" THEN Ok(PyInt(node.value))
    ELSE IF node.type = "VarNode" THEN Ok(PyInt(n))
    ELSE IF node.type = "UnaryNode" THEN
        LET v == exact_node(node.operand, n)
        IN  IF ~v.ok THEN v
            ELSE IF node.op = "+" THEN v ELSE Ok(Neg(v.val))
    ELSE IF node.type = "FuncNode" THEN
        LET a == exact_args(node.args, n, <<>>)
        IN  IF ~a.ok THEN a ELSE eval_func(node.name, a.vals)
    ELSE LET left == exact_node(node.left, n)
         IN  IF ~left.ok THEN left
             ELSE LET right == exact_node(node.right, n)
                  IN  IF ~right.ok THEN right
                      ELSE exact_bin(node.op, left.val, right.val)

\* C4: evaluate returns an integer exactly when the exact rational value of
\* the expression at n has denominator 1, and a non-integer approximate value
\* otherwise, never a truncated or rounded integer; `(n*(n+1))/2` evaluates to
\* the integer n(n+1)/2 and `(n/3)*3` to n, for every integer n.
C4_ExactResult ==
    /\ Evaluated =>
          LET exact == exact_node(formula.node, n_arg)
          IN  exact.ok =>
                /\ value.ok
                /\ (exact.val.den = 1 => value.val = PyInt(exact.val.num))
                /\ (exact.val.den # 1 => value.val.kind = "float" /\ value.val.den # 1)
    /\ (Evaluated /\ expr = <<"(", "n", "*", "(", "n", "+", "1", ")", ")", "/", "2">>) =>
          value = Ok(PyInt((n_arg * (n_arg + 1)) \div 2))
    /\ (Evaluated /\ expr = <<"(", "n", "/", "3", ")", "*", "3">>) =>
          value = Ok(PyInt(n_arg))

\* C5: `x^e` evaluates to the exact value of pow(x, e) of its evaluated
\* operands, also when the base is a non-integer rational: `(n/2)^2`
\* evaluates to the same value as `(n*n)/4`, for every integer n.
C5_PowerOfRational ==
    /\ (Evaluated /\ formula.node.type = "BinNode" /\ formula.node.op = "^") =>
          LET left == eval_node(formula.node.left, n_arg)
          IN  left.ok =>
                /\ value.ok
                /\ value.val.num * IPow(left.val.den, formula.node.right.value)
                      = value.val.den * IPow(left.val.num, formula.node.right.value)
    /\ (Evaluated /\ expr = <<"(", "n", "/", "2", ")", "^", "2">>) =>
          value = evaluate([node |-> NodeOf(<<"(", "n", "*", "n", ")", "/", "4">>)], n_arg)

\* C6: evaluating `a/b` fails with the division-by-zero error whenever b
\* evaluates to exactly zero, as an int or as a rational; the expression
\* still parses to a formula, and the formula evaluates to a/b where b is
\* not zero.
C6_DivisionByZero ==
    /\ (Evaluated /\ formula.node.type = "BinNode" /\ formula.node.op = "/") =>
          LET left == eval_node(formula.node.left, n_arg)
              right == eval_node(formula.node.right, n_arg)
          IN  (left.ok /\ right.ok) =>
                /\ (right.val.num = 0 => value = ValueError("Division by zero"))
                /\ (right.val.num # 0 =>
                      /\ value.ok
                      /\ value.val.kind \in {"int", "float"}
                      /\ (value.val.kind = "int" =>
                            value.val.num * left.val.den * right.val.num
                               = left.val.num * right.val.den))
    /\ (Called /\ expr \in {<<"1", "/", "n">>,
                            <<"1", "/", "(", "n", "-", "n", ")">>,
                            <<"1", "/", "(", "n", "/", "2", "-", "n", "/", "2", ")">>}) =>
          /\ formula # None
          /\ (Evaluated /\ expr # <<"1", "/", "n">> => value = ValueError("Division by zero"))
          /\ (Evaluated /\ expr = <<"1", "/", "n">> /\ n_arg = 0 =>
                value = ValueError("Division by zero"))
          /\ (Evaluated /\ expr = <<"1", "/", "n">> /\ n_arg # 0 => value.ok)

\* `1/(n/2-n/2)`, whose divisor is the rational zero, has failed at n = 1
C6_Witness ==
    /\ Evaluated
    /\ expr = <<"1", "/", "(", "n", "/", "2", "-", "n", "/", "2", ")">>
    /\ n_arg = 1
    /\ eval_node(formula.node.right, n_arg) = Ok(Fraction(0, 1))
    /\ value = ValueError("Division by zero")

\* the right operand of every '^' node is a NumNode with a value >= 0
RECURSIVE ExponentsAreLiterals(_)
ExponentsAreLiterals(node) ==
    IF node.type = "BinNode"
    THEN /\ (node.op = "^" => (node.right.type = "NumNode" /\ node.right.value >= 0))
         /\ ExponentsAreLiterals(node.left)
         /\ ExponentsAreLiterals(node.right)
    ELSE IF node.type = "UnaryNode" THEN ExponentsAreLiterals(node.operand)
    ELSE IF node.type = "FuncNode"
    THEN \A k \in 1..Len(node.args) : ExponentsAreLiterals(node.args[k])
    ELSE TRUE

\* C7: in every AST the parser returns, the right operand of each '^' node
\* is a Number node holding the non-negative value of an integer literal
\* token; `n^n`, `n^(2)`, `n^-1` and `n^floor(n)` yield no formula.
C7_ExponentIsLiteral ==
    /\ (Called /\ formula # None) => ExponentsAreLiterals(formula.node)
    /\ (Called /\ expr \in {<<"n", "^", "n">>,
                            <<"n", "^", "(", "2", ")">>,
                            <<"n", "^", "-", "1">>,
                            <<"n", "^", "f", "l", "o", "o", "r", "(", "n", ")">>}) =>
          formula = None
    /\ (Called /\ expr = <<"n", "^", "3">>) =>
          (formula # None /\ formula.node = BinNode("^", VarNode, NumNode(3)))

\* `n^3` has been parsed to a '^' node whose right operand is Number 3
C7_Witness ==
    /\ Called
    /\ expr = <<"n", "^", "3">>
    /\ formula # None
    /\ formula.node.right = NumNode(3)

\* C8: `-n^2` parses as UnaryOp('-', BinaryOp('^', Variable, Number 2)) and
\* evaluates to -(n*n) for every integer n, never to (-n)^2.
C8_SignAppliesToPower ==
    (Called /\ expr = <<"-", "n", "^", "2">>) =>
        /\ formula # None
        /\ formula.node = UnaryNode("-", BinNode("^", VarNode, NumNode(2)))
        /\ (Evaluated => value = Ok(PyInt(-(n_arg * n_arg))))

\* `-n^2` has been evaluated at n = 2 to -4
C8_Witness ==
    /\ Evaluated
    /\ expr = <<"-", "n", "^", "2">>
    /\ n_arg = 2
    /\ value = Ok(PyInt(-4))

\* what parse_expression gives for the text e: the exception that escapes
\* and the AST of the formula returned
ParseOutcome(e) ==
    LET r == build_formula("A000045", "oeis", e, CallerDepth + 1)
    IN  [exc |-> r.exc, node |-> IF r.ret = None THEN None ELSE r.ret.node]

\* the token sequence of the text e, None when the sanitizer rejects it
TokensOf(e) ==
    LET cleaned == sanitize_expression(e)
    IN  IF cleaned = None THEN None ELSE tokenize(cleaned.str)

\* the offsets in s at which a token ends, scanning from pos
RECURSIVE TokenEnds(_, _)
TokenEnds(s, pos) ==
    IF pos > Len(s) THEN {}
    ELSE LET m == TOKEN_REGEX_match(s, pos)
         IN  IF ~m.matched THEN {} ELSE {m.end - 1} \cup TokenEnds(s, m.end)

\* the offsets in the input e before its first token, between two of its
\* tokens and after its last token, when e has a token sequence
TokenBoundaries(e) ==
    LET cleaned == sanitize_expression(e)
        lead == Len(e) - Len(LStrip(e))
    IN  IF cleaned = None THEN {}
        ELSE IF ~tokenize(cleaned.str).ok THEN {}
        ELSE {lead + b : b \in {0} \cup TokenEnds(cleaned.str, 1)}

InsertAt(e, k, c) == SubSeq(e, 1, k) \o <<c>> \o SubSeq(e, k + 1, Len(e))

\* C9: whitespace added before the first token, between two tokens or after
\* the last token (in front of a stripped '.' or ';' too) gives the same
\* token sequence and the same parse result as the input without it.
C9_WhitespaceSkipped ==
    Called =>
        \A b \in TokenBoundaries(expr) : \A w \in Whitespace :
            /\ TokensOf(InsertAt(expr, b, w)) = TokensOf(expr)
            /\ ParseOutcome(InsertAt(expr, b, w)) = ParseOutcome(expr)

\* the maximal runs of letters of the text s
LetterRuns(s) ==
    {SubSeq(s, i, j) : <<i, j>> \in
        {ij \in (1..Len(s)) \X (1..Len(s)) :
            /\ ij[1] <= ij[2]
            /\ \A k \in ij[1]..ij[2] : s[k] \in Letters
            /\ (ij[1] = 1 \/ s[ij[1] - 1] \notin Letters)
            /\ (ij[2] = Len(s) \/ s[ij[2] + 1] \notin Letters)}}

\* n and the six function names, in lower case
SupportedIdentifiers ==
    {<<"n">>, <<"f", "l", "o", "o", "r">>, <<"c", "e", "i", "l">>,
     <<"b", "i", "n", "o", "m", "i", "a", "l">>, <<"s", "q", "r", "t", "i", "n", "t">>,
     <<"g", "c", "d">>, <<"s", "u", "m", "d", "i", "g", "i", "t", "s">>}

HasUnsupportedIdentifier(s) == \E run \in LetterRuns(s) : Lower(run) \notin SupportedIdentifiers

\* the names of the FuncNodes of an AST
RECURSIVE FunctionNamesOf(_)
FunctionNamesOf(node) ==
    IF node.type = "BinNode" THEN FunctionNamesOf(node.left) \cup FunctionNamesOf(node.right)
    ELSE IF node.type = "UnaryNode" THEN FunctionNamesOf(node.operand)
    ELSE IF node.type = "FuncNode"
    THEN {node.name} \cup UNION {FunctionNamesOf(node.args[k]) : k \in 1..Len(node.args)}
    ELSE {}

\* C10: a run of letters other than n/N and the six function names makes
\* tokenizing fail with the unsupported-identifier error and gives no
\* formula (`sin(n)`, `nn`); every FunctionCall node of a parsed AST carries
\* one of the six names, and evaluation never fails with UnknownFunction.
C10_IdentifierWhitelist ==
    /\ (Called /\ HasUnsupportedIdentifier(expr)) =>
          /\ formula = None
          /\ raised = ""
          /\ (sanitize_expression(expr) # None =>
                tokenize(sanitize_expression(expr).str) = ValueError("Unsupported identifier"))
    /\ (Called /\ formula # None) =>
          FunctionNamesOf(formula.node) \subseteq
              {"floor", "ceil", "binomial", "sqrtint", "gcd", "sumdigits"}
    /\ (Evaluated /\ ~value.ok) => value.msg # "Unknown function"
    /\ (Called /\ expr = <<"F", "l", "o", "o", "r", "(", "N", ")">>) =>
          (formula # None /\ formula.node = FuncNode("floor", <<VarNode>>))

\* `nn` has been given to parse_expression, which returned no formula
C10_Witness ==
    /\ Called
    /\ expr = <<"n", "n">>
    /\ tokenize(expr) = ValueError("Unsupported identifier")
    /\ formula = None

\* the result of Parser.expr at the first token of the cleaned text of e, in
\* the frame Parser.parse calls it in: None when e has no token sequence
FirstExpression(e) ==
    LET t == TokensOf(e)
    IN  IF t = None THEN None
        ELSE IF ~t.ok THEN None
        ELSE [tokens |-> t.tokens, e |-> Parser_expr(t.tokens, 0, CallerDepth + 4)]

\* the inputs C11 names whose prefix is a complete expression
TrailingExamples == {<<"2", "n">>, <<"n", " ", "n">>, <<"(", "n", ")", ")">>, <<"n", "^", "2", "^", "3">>}

\* C11: a parse succeeds only if one expression consumes the whole token
\* sequence up to EOF: an input whose first expression stops before EOF
\* (`2n`, `n n`, `(n))`, `n^2^3`) and a truncated input (`2 + `) yield no
\* formula, never the formula of the prefix, and nothing is evaluated.
C11_WholeInputConsumed ==
    /\ Called =>
          LET first == FirstExpression(expr)
              stops == IF first = None THEN FALSE
                       ELSE first.e.ok /\ first.e.i + 1 < Len(first.tokens)
          IN  /\ stops => (formula = None /\ value = None)
              /\ formula # None =>
                    /\ first # None
                    /\ first.e.ok
                    /\ first.e.node = formula.node
                    /\ first.e.i + 1 = Len(first.tokens)
                    /\ first.tokens[Len(first.tokens)].kind = "EOF"
              /\ expr \in TrailingExamples => stops
              /\ expr = <<"2", " ", "+", " ">> => (first # None /\ ~first.e.ok)
    /\ (Called /\ expr \in TrailingExamples \cup {<<"2", " ", "+", " ">>}) =>
          (formula = None /\ raised = "" /\ value = None)

\* `n^2^3` has been given to parse_expression: its first expression is n^2,
\* the second '^' is left over, and no formula is returned
C11_Witness ==
    /\ Called
    /\ expr = <<"n", "^", "2", "^", "3">>
    /\ FirstExpression(expr).e.node = BinNode("^", VarNode, NumNode(2))
    /\ FirstExpression(expr).tokens[FirstExpression(expr).e.i + 1].kind = "POW"
    /\ formula = None

\* the numbers of arguments each function takes
Arity(name) ==
    CASE name \in {"floor", "ceil", "sqrtint"} -> {1}
      [] name \in {"binomial", "gcd"} -> {2}
      [] name = "sumdigits" -> {1, 2}

\* the arity error of each function
ArityError(name) ==
    CASE name = "floor" -> ValueError("floor() expects 1 argument")
      [] name = "ceil" -> ValueError("ceil() expects 1 argument")
      [] name = "sqrtint" -> ValueError("sqrtint() expects 1 argument")
      [] name = "binomial" -> ValueError("binomial() expects 2 arguments")
      [] name = "gcd" -> ValueError("gcd() expects 2 arguments")
      [] name = "sumdigits" -> ValueError("sumdigits() expects 1 or 2 arguments")

\* C12: a call with one or more comma-separated arguments parses to a
\* formula whatever the function's arity (`floor(n,2)`, `binomial(n)`), a
\* call with no argument yields no formula, and evaluating a call with a
\* wrong number of arguments fails with the function's arity error for
\* every n, while a call with a right number never does.
C12_ArityAtEvaluation ==
    /\ \A name \in {"floor", "ceil", "binomial", "sqrtint", "gcd", "sumdigits"} :
       \A k \in 0..MaxArgs :
          (Called /\ expr = Call(name, k)) =>
              /\ (k = 0 => formula = None)
              /\ (k > 0 => (formula # None /\
                            formula.node = FuncNode(name, [a \in 1..k |-> VarNode])))
              /\ (Evaluated /\ k \notin Arity(name) => value = ArityError(name))
              /\ (Evaluated /\ k \in Arity(name) => value # ArityError(name))
    /\ (Called /\ expr = <<"f", "l", "o", "o", "r", "(", "n", ",", "2", ")">>) =>
          /\ formula # None
          /\ formula.node = FuncNode("floor", <<VarNode, NumNode(2)>>)
          /\ (Evaluated => value = ArityError("floor"))
    /\ (Called /\ expr = <<"b", "i", "n", "o", "m", "i", "a", "l", "(", "n", ")">>) =>
          /\ formula # None
          /\ formula.node = FuncNode("binomial", <<VarNode>>)
          /\ (Evaluated => value = ArityError("binomial"))
    /\ (Called /\ expr \in {<<"f", "l", "o", "o", "r", "(", ")">>, <<"f", "l", "o", "o", "r", "(", "n", ",", ")">>, <<"f", "l", "o", "o", "r", "(", ",", "n", ")">>}) => formula = None

\* `floor(n,2)` has been parsed to a formula and evaluated at n = 3, which
\* failed with the arity error of floor
C12_Witness ==
    /\ Evaluated
    /\ expr = <<"f", "l", "o", "o", "r", "(", "n", ",", "2", ")">>
    /\ n_arg = 3
    /\ value = ValueError("floor() expects 1 argument")

\* the values of the arguments of the call that is the root of the formula,
\* when each of them has one
RootArguments ==
    [k \in 1..Len(formula.node.args) |-> eval_node(formula.node.args[k], n_arg)]

\* the root of the formula is a call of one of the four integer functions
\* with a right number of arguments, each of which has a value
IntegerCall ==
    /\ formula # None
    /\ formula.node.type = "FuncNode"
    /\ formula.node.name \in {"binomial", "sqrtint", "gcd", "sumdigits"}
    /\ Len(formula.node.args) \in Arity(formula.node.name)
    /\ \A k \in 1..Len(formula.node.args) : RootArguments[k].ok

\* C13: binomial, sqrtint, gcd and sumdigits take an argument value only if
\* it is an exact integer, a rational with denominator 1 included
\* (`binomial(n/2,1)` at even n is n/2), and fail with the
\* non-integer-argument error, returning no value, exactly when an argument
\* is a rational with a denominator other than 1 (`binomial(n/2,1)` at odd n).
C13_IntegerArguments ==
    /\ (Evaluated /\ IntegerCall) =>
          ((\E k \in 1..Len(formula.node.args) : RootArguments[k].val.den # 1)
              <=> value = ValueError("Expected integer argument"))
    /\ (Evaluated /\ expr \in {<<"b", "i", "n", "o", "m", "i", "a", "l", "(", "n", "/", "2", ",", "1", ")">>, <<"b", "i", "n", "o", "m", "i", "a", "l", "(", "2", "*", "n", "/", "2", ",", "1", ")">>}) =>
          value = IF expr = <<"b", "i", "n", "o", "m", "i", "a", "l", "(", "n", "/", "2", ",", "1", ")">> /\ n_arg % 2 = 1
                  THEN ValueError("Expected integer argument")
                  ELSE Ok(PyInt(IF expr = <<"b", "i", "n", "o", "m", "i", "a", "l", "(", "n", "/", "2", ",", "1", ")">> THEN n_arg \div 2 ELSE n_arg))
    /\ (Evaluated /\ expr = <<"g", "c", "d", "(", "2", ",", "n", "/", "2", ")">> /\ n_arg % 2 = 0) =>
          value = Ok(PyInt(IF n_arg % 4 = 0 THEN 2 ELSE 1))
    /\ (Evaluated /\ expr = <<"s", "q", "r", "t", "i", "n", "t", "(", "n", "*", "n", "/", "4", ")">> /\ n_arg % 2 = 0) =>
          value = Ok(PyInt(IF n_arg < 0 THEN -n_arg \div 2 ELSE n_arg \div 2))
    /\ (Evaluated /\ expr = <<"f", "l", "o", "o", "r", "(", "n", "/", "2", ")">>) => value.ok

\* `binomial(n/2,1)` has been evaluated at n = 3 and failed, the first
\* argument being 3/2
C13_Witness ==
    /\ Evaluated
    /\ expr = <<"b", "i", "n", "o", "m", "i", "a", "l", "(", "n", "/", "2", ",", "1", ")">>
    /\ n_arg = 3
    /\ IntegerCall
    /\ RootArguments[1].val.den = 2
    /\ value = ValueError("Expected integer argument")

\* the sum of the digits of y >= 0 written in base b >= 2
RECURSIVE DigitSum(_, _)
DigitSum(y, b) == IF y < b THEN y ELSE (y % b) + DigitSum(y \div b, b)

\* what sumdigits has to give for the integer x in base b
SumdigitsResult(x, b) ==
    IF b < 2 THEN ValueError("sumdigits() base must be >= 2")
    ELSE Ok(PyInt(DigitSum(Abs(x), b)))

\* C14: sumdigits(x) uses base 10 and sumdigits(x, b) base b; for b >= 2 the
\* result is the sum of the base-b digits of |x| (0 for x = 0, the same for
\* x and -x); for every b < 2 evaluation fails with the invalid-base error,
\* for x = 0 too.
C14_SumdigitsBase ==
    /\ \A b \in -MaxN..MaxN :
          (Evaluated /\ expr = SumdigitsCall(b)) => value = SumdigitsResult(n_arg, b)
    /\ (Evaluated /\ expr = <<"s", "u", "m", "d", "i", "g", "i", "t", "s", "(", "0", ",", "n", ")">>) => value = SumdigitsResult(0, n_arg)
    /\ (Evaluated /\ expr = <<"s", "u", "m", "d", "i", "g", "i", "t", "s", "(", "7", ",", "n", ")">>) => value = SumdigitsResult(7, n_arg)
    /\ (Evaluated /\ expr = <<"s", "u", "m", "d", "i", "g", "i", "t", "s", "(", "2", "5", "5", ",", "n", ")">>) => value = SumdigitsResult(255, n_arg)
    /\ (Evaluated /\ expr = <<"s", "u", "m", "d", "i", "g", "i", "t", "s", "(", "-", "2", "5", "5", ",", "n", ")">>) => value = SumdigitsResult(255, n_arg)
    /\ (Evaluated /\ expr = <<"s", "u", "m", "d", "i", "g", "i", "t", "s", "(", "n", ")">>) => value = SumdigitsResult(n_arg, 10)
    /\ (Evaluated /\ expr = <<"s", "u", "m", "d", "i", "g", "i", "t", "s", "(", "n", "*", "n", "*", "n", ")">>) =>
          value = SumdigitsResult(n_arg * n_arg * n_arg, 10)
    /\ (Evaluated /\ expr = <<"s", "u", "m", "d", "i", "g", "i", "t", "s", "(", "n", ",", "2", ")">> /\ n_arg = 0) => value = Ok(PyInt(0))

\* `sumdigits(0,n)` has been evaluated at n = 1 and failed with the
\* invalid-base error
C14_Witness ==
    /\ Evaluated
    /\ expr = <<"s", "u", "m", "d", "i", "g", "i", "t", "s", "(", "0", ",", "n", ")">>
    /\ n_arg = 1
    /\ value = ValueError("sumdigits() base must be >= 2")

\* C15 as stated: sumdigits(0) evaluates to 0, sumdigits(255, 16) to 15 and
\* sumdigits(255), in base 10, to 18, at every n.
C15_SumdigitsExamples ==
    /\ (Evaluated /\ expr = <<"s", "u", "m", "d", "i", "g", "i", "t", "s", "(", "0", ")">>) => value = Ok(PyInt(0))
    /\ (Evaluated /\ expr = <<"s", "u", "m", "d", "i", "g", "i", "t", "s", "(", "2", "5", "5", ",", "1", "6", ")">>) => value = Ok(PyInt(15))
    /\ (Evaluated /\ expr = <<"s", "u", "m", "d", "i", "g", "i", "t", "s", "(", "2", "5", "5", ")">>) => value = Ok(PyInt(18))

\* C15 as amended: sumdigits(0) evaluates to 0, sumdigits(255, 16) to 30
\* (255 is FF in base 16, and 15 + 15 = 30) and sumdigits(255), in base 10,
\* to 12 (2 + 5 + 5), at every n; these are the digit sums of 255.
C15_SumdigitsOf255 ==
    /\ (Evaluated /\ expr = <<"s", "u", "m", "d", "i", "g", "i", "t", "s", "(", "0", ")">>) => value = Ok(PyInt(0))
    /\ (Evaluated /\ expr = <<"s", "u", "m", "d", "i", "g", "i", "t", "s", "(", "2", "5", "5", ",", "1", "6", ")">>) => value = Ok(PyInt(30))
    /\ (Evaluated /\ expr = <<"s", "u", "m", "d", "i", "g", "i", "t", "s", "(", "2", "5", "5", ")">>) => value = Ok(PyInt(12))
    /\ 255 = 15 * 16 + 15 /\ DigitSum(255, 16) = 15 + 15
    /\ 255 = 2 * 100 + 5 * 10 + 5 /\ DigitSum(255, 10) = 2 + 5 + 5

\* `sumdigits(255,16)` has been evaluated to 30
C15_Witness ==
    /\ Evaluated
    /\ expr = <<"s", "u", "m", "d", "i", "g", "i", "t", "s", "(", "2", "5", "5", ",", "1", "6", ")">>
    /\ formula.node = FuncNode("sumdigits", <<NumNode(255), NumNode(16)>>)
    /\ value = Ok(PyInt(30))

\* d divides a
Divides(d, a) == \E q \in -Abs(a)..Abs(a) : a = d * q

\* the greatest common divisor of a and b: the greatest d >= 1 that divides
\* both, and 0 for a = b = 0
GreatestCommonDivisor(a, b) ==
    IF a = 0 /\ b = 0 THEN 0
    ELSE CHOOSE d \in 1..(Abs(a) + Abs(b)) :
            /\ Divides(d, a) /\ Divides(d, b)
            /\ \A e \in 1..(Abs(a) + Abs(b)) : (Divides(e, a) /\ Divides(e, b)) => e <= d

\* the value at n of the formula of the text e
ValueOf(e, n) == evaluate([node |-> NodeOf(e)], n)

\* C16 as stated: for all integers a and b, negative ones included,
\* gcd(a,0) evaluates to a, gcd(0,b) evaluates to b, and gcd(a,b) = gcd(b,a).
C16_GcdIdentities ==
    /\ (Evaluated /\ expr = GcdCall(0)) => value = Ok(PyInt(n_arg))
    /\ (Evaluated /\ expr = GcdCallSwapped(0)) => value = Ok(PyInt(n_arg))
    /\ \A k \in -MaxN..MaxN :
          (Evaluated /\ expr = GcdCall(k)) => value = ValueOf(GcdCallSwapped(k), n_arg)

\* C16 as amended: for all integers a and b, gcd(a,0) evaluates to |a|,
\* gcd(0,b) evaluates to |b|, and gcd(a,b) = gcd(b,a); the value is the
\* non-negative greatest common divisor, so gcd(a,0) = a only for a >= 0.
C16_GcdIsNonNegative ==
    /\ (Evaluated /\ expr = GcdCall(0)) => value = Ok(PyInt(Abs(n_arg)))
    /\ (Evaluated /\ expr = GcdCallSwapped(0)) => value = Ok(PyInt(Abs(n_arg)))
    /\ \A k \in -MaxN..MaxN :
          /\ (Evaluated /\ expr = GcdCall(k)) =>
                /\ value = ValueOf(GcdCallSwapped(k), n_arg)
                /\ value = Ok(PyInt(GreatestCommonDivisor(n_arg, k)))
          /\ (Evaluated /\ expr = GcdCallSwapped(k)) =>
                value = Ok(PyInt(GreatestCommonDivisor(k, n_arg)))

\* `gcd(n,0)` has been evaluated at n = -3 to 3
C16_Witness ==
    /\ Evaluated
    /\ expr = GcdCall(0)
    /\ n_arg = -3
    /\ value = Ok(PyInt(3))

\* the root of the formula is a call of name with one argument that has a
\* value
RootCallOf(name) ==
    /\ formula # None
    /\ formula.node.type = "FuncNode"
    /\ formula.node.name = name
    /\ Len(formula.node.args) = 1
    /\ RootArguments[1].ok

\* C17: floor(x) is the greatest integer <= x and ceil(x) the least integer
\* >= x for every exact rational x, negative x included (floor(-1/2) = -1,
\* ceil(-1/2) = 0, ceil(x) = -floor(-x)); `floor((n+1)/2)` at n = 0..5 is
\* 0, 1, 1, 2, 2, 3.
C17_FloorCeil ==
    /\ (Evaluated /\ RootCallOf("floor")) =>
          /\ value.ok /\ value.val.kind = "int"
          /\ value.val.num * RootArguments[1].val.den <= RootArguments[1].val.num
          /\ RootArguments[1].val.num < (value.val.num + 1) * RootArguments[1].val.den
    /\ (Evaluated /\ RootCallOf("ceil")) =>
          /\ value.ok /\ value.val.kind = "int"
          /\ value.val.num * RootArguments[1].val.den >= RootArguments[1].val.num
          /\ RootArguments[1].val.num > (value.val.num - 1) * RootArguments[1].val.den
    /\ (Evaluated /\ expr = <<"f", "l", "o", "o", "r", "(", "-", "1", "/", "2", ")">>) => value = Ok(PyInt(-1))
    /\ (Evaluated /\ expr = <<"c", "e", "i", "l", "(", "-", "1", "/", "2", ")">>) => value = Ok(PyInt(0))
    /\ (Evaluated /\ expr = <<"c", "e", "i", "l", "(", "n", "/", "3", ")">>) =>
          /\ ValueOf(<<"f", "l", "o", "o", "r", "(", "-", "n", "/", "3", ")">>, n_arg).ok
          /\ value = Ok(PyInt(-ValueOf(<<"f", "l", "o", "o", "r", "(", "-", "n", "/", "3", ")">>, n_arg).val.num))
    /\ (Evaluated /\ expr = <<"c", "e", "i", "l", "(", "n", "/", "-", "2", ")">>) =>
          value = Ok(PyInt(-ValueOf(<<"f", "l", "o", "o", "r", "(", "n", "/", "2", ")">>, n_arg).val.num))
    /\ (Evaluated /\ expr = <<"f", "l", "o", "o", "r", "(", "(", "n", "+", "1", ")", "/", "2", ")">> /\ n_arg \in 0..5) =>
          value = Ok(PyInt(<<0, 1, 1, 2, 2, 3>>[n_arg + 1]))

\* `floor(n/3)` has been evaluated at n = -1 to -1, the floor of -1/3
C17_Witness ==
    /\ Evaluated
    /\ expr = <<"f", "l", "o", "o", "r", "(", "n", "/", "3", ")">>
    /\ n_arg = -1
    /\ RootCallOf("floor")
    /\ RootArguments[1].val.den = 3
    /\ value = Ok(PyInt(-1))

\* C18: sqrtint(x) for an integer x >= 0 is the integer r >= 0 with
\* r*r <= x < (r+1)*(r+1), so sqrtint(k*k) = k for every k >= 0; for a
\* negative x evaluation fails with an error and returns no value.
C18_IntegerSquareRoot ==
    /\ (Evaluated /\ RootCallOf("sqrtint") /\ RootArguments[1].val.den = 1) =>
          IF RootArguments[1].val.num >= 0
          THEN /\ value.ok /\ value.val.kind = "int" /\ value.val.num >= 0
               /\ value.val.num * value.val.num <= RootArguments[1].val.num
               /\ RootArguments[1].val.num < (value.val.num + 1) * (value.val.num + 1)
          ELSE ~value.ok /\ value.exc = "ValueError"
    /\ (Evaluated /\ expr = <<"s", "q", "r", "t", "i", "n", "t", "(", "n", "*", "n", ")">> /\ n_arg >= 0) => value = Ok(PyInt(n_arg))
    /\ (Evaluated /\ expr = <<"s", "q", "r", "t", "i", "n", "t", "(", "n", "*", "n", "+", "2", "*", "n", ")">> /\ n_arg >= 0) => value = Ok(PyInt(n_arg))
    /\ (Evaluated /\ expr = <<"s", "q", "r", "t", "i", "n", "t", "(", "n", ")">> /\ n_arg < 0) => ~value.ok

\* `sqrtint(n)` has been evaluated at n = -1 and failed
C18_Witness ==
    /\ Evaluated
    /\ expr = <<"s", "q", "r", "t", "i", "n", "t", "(", "n", ")">>
    /\ n_arg = -1
    /\ ~value.ok

\* C19: `n^0` evaluates to 1 and `n^1` evaluates to n for every integer n,
\* n = 0 and negative n included.
C19_PowerZeroAndOne ==
    /\ (Called /\ expr = <<"n", "^", "0">>) =>
          (formula # None /\ formula.node = BinNode("^", VarNode, NumNode(0)))
    /\ (Called /\ expr = <<"n", "^", "1">>) =>
          (formula # None /\ formula.node = BinNode("^", VarNode, NumNode(1)))
    /\ (Evaluated /\ expr \in {<<"n", "^", "0">>, <<"n", "^", "0", "0">>}) => value = Ok(PyInt(1))
    /\ (Evaluated /\ expr \in {<<"n", "^", "1">>, <<"n", "^", "0", "1">>, <<"(", "n", ")", "^", "1">>}) => value = Ok(PyInt(n_arg))

\* `n^0` has been evaluated at n = 0 to 1
C19_Witness ==
    /\ Evaluated
    /\ expr = <<"n", "^", "0">>
    /\ n_arg = 0
    /\ value = Ok(PyInt(1))

\* the greatest element of a non-empty set of integers
Greatest(S) == CHOOSE m \in S : \A k \in S : k <= m

\* the least element of a non-empty set of integers
Least(S) == CHOOSE m \in S : \A k \in S : m <= k

\* the positions of e that hold no whitespace
Inked(e) == {i \in 1..Len(e) : e[i] \notin {" ", "\t", "\n"}}

\* e without its leading and trailing whitespace
Trimmed(e) == IF Inked(e) = {} THEN <<>> ELSE SubSeq(e, Least(Inked(e)), Greatest(Inked(e)))

\* the cleaned text of e: e trimmed, then without its trailing '.' and ';'
CleanedText(e) ==
    LET t == Trimmed(e)
        kept == {i \in 1..Len(t) : t[i] \notin {".", ";"}}
    IN  IF kept = {} THEN <<>> ELSE SubSeq(t, 1, Greatest(kept))

\* digits, ASCII letters, + - * / ^ ( ) , and whitespace
CleanCharacters ==
    {"0", "1", "2", "3", "4", "5", "6", "7", "8", "9",
     "a", "b", "c", "d", "e", "f", "g", "h", "i", "j", "k", "l", "m",
     "n", "o", "p", "q", "r", "s", "t", "u", "v", "w", "x", "y", "z",
     "A", "B", "C", "D", "E", "F", "G", "H", "I", "J", "K", "L", "M",
     "N", "O", "P", "Q", "R", "S", "T", "U", "V", "W", "X", "Y", "Z",
     "+", "-", "*", "/", "^", "(", ")", ",", " ", "\t", "\n"}

\* the text c is empty or holds a character that is not clean
Unclean(c) == c = <<>> \/ \E i \in 1..Len(c) : c[i] \notin CleanCharacters

\* C20: the sanitizer trims leading and trailing whitespace and then
\* removes every trailing '.' and ';'; it returns no result when the text
\* that remains is empty ("", "   ", " .; ") or holds a character other than
\* digits, ASCII letters, + - * / ^ ( ) , and whitespace; a formula that
\* parse_expression returns has this cleaned text as its expression and the
\* call's sequence id and source unchanged.
C20_Sanitizer ==
    /\ Called =>
          LET cleaned == CleanedText(expr)
          IN  /\ sanitize_expression(expr) =
                    IF Unclean(cleaned) THEN None ELSE [str |-> cleaned]
              /\ (Unclean(cleaned) => formula = None)
              /\ (formula # None =>
                    /\ formula.expression = cleaned
                    /\ formula.sequence_id = seq_id_arg
                    /\ formula.source = source_arg)
    /\ (Called /\ expr \in {<<>>, <<" ", " ", " ">>, <<" ", ".", ";", " ">>}) =>
          (formula = None /\ CleanedText(expr) = <<>>)
    /\ (Called /\ expr = <<" ", "n", "+", "1", ";", ".", " ">>) =>
          (formula # None /\ formula.expression = <<"n", "+", "1">>)

\* ` n+1;. ` has been given to parse_expression with the second sequence id
\* and the source loda, and the formula returned holds the text n+1
C20_Witness ==
    /\ Called
    /\ expr = <<" ", "n", "+", "1", ";", ".", " ">>
    /\ seq_id_arg = "A000290"
    /\ source_arg = "loda"
    /\ formula # None
    /\ formula.expression = <<"n", "+", "1">>
    /\ formula.sequence_id = "A000290"
    /\ formula.source = "loda"

\* the AST of `n a 2 b 3` when b binds tighter than a, and when it does not
ChainTree(a, b) ==
    IF b \in {"*", "/"} /\ a \in {"+", "-"}
    THEN BinNode(a, VarNode, BinNode(b, NumNode(2), NumNode(3)))
    ELSE BinNode(b, BinNode(a, VarNode, NumNode(2)), NumNode(3))

\* C27: binary operators of equal precedence associate to the left, and '*'
\* and '/' bind tighter than binary '+' and '-': `a-b-c` is (a-b)-c,
\* `a/b/c` is (a/b)/c, `a/b*c` is (a/b)*c and `a+b*c` is a+(b*c), for all
\* operand values (8-3-2 = 3, 8/4/2 = 1, 2+3*4 = 14).
C27_PrecedenceAndAssociativity ==
    /\ \A a \in {"+", "-", "*", "/"} : \A b \in {"+", "-", "*", "/"} :
          (Called /\ expr = Chain(a, b)) =>
              (formula # None /\ formula.node = ChainTree(a, b))
    /\ (Evaluated /\ expr = Chain("-", "-")) => value = Ok(PyInt(n_arg - 5))
    /\ (Evaluated /\ expr = Chain("-", "+")) => value = Ok(PyInt(n_arg + 1))
    /\ (Evaluated /\ expr = Chain("+", "*")) => value = Ok(PyInt(n_arg + 6))
    /\ (Evaluated /\ expr = Chain("-", "*")) => value = Ok(PyInt(n_arg - 6))
    /\ (Evaluated /\ expr = Chain("*", "+")) => value = Ok(PyInt(2 * n_arg + 3))
    /\ (Evaluated /\ expr = Chain("/", "/")) =>
          /\ value.ok
          /\ (n_arg % 6 = 0 <=> value.val.kind = "int")
          /\ (n_arg % 6 = 0 => value.val.num * 6 = n_arg)
    /\ (Evaluated /\ expr = Chain("/", "*")) =>
          /\ value.ok
          /\ (n_arg % 2 = 0 <=> value.val.kind = "int")
          /\ (n_arg % 2 = 0 => value.val.num * 2 = 3 * n_arg)
    /\ (Evaluated /\ expr = <<"8", "-", "3", "-", "2">>) => value = Ok(PyInt(3))
    /\ (Evaluated /\ expr = <<"8", "/", "4", "/", "2">>) => value = Ok(PyInt(1))
    /\ (Evaluated /\ expr = <<"2", "+", "3", "*", "4">>) => value = Ok(PyInt(14))
    /\ (Evaluated /\ expr = <<"8", "-", "n", "-", "2">>) => value = Ok(PyInt(6 - n_arg))

\* `8/4/2` has been parsed to (8/4)/2 and evaluated to 1
C27_Witness ==
    /\ Evaluated
    /\ expr = <<"8", "/", "4", "/", "2">>
    /\ formula.node = BinNode("/", BinNode("/", NumNode(8), NumNode(4)), NumNode(2))
    /\ value = Ok(PyInt(1))

\* the values of the nodes of an AST at n that have a value
RECURSIVE NodeValues(_, _)
NodeValues(node, n) ==
    LET v == eval_node(node, n)
        here == IF v.ok THEN {v.val} ELSE {}
    IN  IF node.type = "BinNode"
        THEN here \cup NodeValues(node.left, n) \cup NodeValues(node.right, n)
        ELSE IF node.type = "UnaryNode" THEN here \cup NodeValues(node.operand, n)
        ELSE IF node.type = "FuncNode"
        THEN here \cup UNION {NodeValues(node.args[k], n) : k \in 1..Len(node.args)}
        ELSE here

\* C29: every value produced while a parser-built AST is evaluated at an
\* integer n is an int or an exact rational in lowest terms, never a float
\* (the infinity sentinel is a float); so evaluate never takes its float
\* branch, and its only approximate result is the float of an exact rational
\* with a denominator other than 1.
C29_ExactIntermediateValues ==
    Evaluated =>
        /\ \A v \in NodeValues(formula.node, n_arg) :
              /\ v.kind \in {"int", "Fraction"}
              /\ v.den >= 1
              /\ (v.kind = "int" => v.den = 1)
              /\ Gcd(v.num, v.den) = 1
        /\ value.ok =>
              LET result == eval_node(formula.node, n_arg).val
              IN  IF result.den = 1
                  THEN value = Ok(PyInt(result.num))
                  ELSE /\ result.kind = "Fraction"
                       /\ value.val.kind = "float"
                       /\ value = Ok(Float(result))

\* `n/2` has been evaluated at n = 1: the AST has the value 1/2, an exact
\* rational, and evaluate returned the float 0.5
C29_Witness ==
    /\ Evaluated
    /\ expr = <<"n", "/", "2">>
    /\ n_arg = 1
    /\ eval_node(formula.node, n_arg) = Ok(Fraction(1, 2))
    /\ value.val.kind = "float"
    /\ 2 * value.val.num = value.val.den

\* every match of TOKEN_REGEX in s ends after the position it started at, and
\* not after the end of s
ScanAdvances(s) ==
    \A pos \in 1..Len(s) :
        LET m == TOKEN_REGEX_match(s, pos)
        IN  m.matched => (pos < m.end /\ m.end <= Len(s) + 1)

\* the token list holds one EOF token, at its end
OneEOFLast(tokens) ==
    /\ Len(tokens) >= 1
    /\ tokens[Len(tokens)].kind = "EOF"
    /\ \A k \in 1..(Len(tokens) - 1) : tokens[k].kind # "EOF"

\* a grammar method that started at index i and returned r has moved the
\* index forward, and not past the EOF token (index len(tokens) - 1)
IndexMoved(tokens, i, r) == r.ok => (i < r.i /\ r.i <= Len(tokens) - 1)

\* every grammar method, started at any index of the token list
MethodsStayInBounds(tokens) ==
    \A i \in 0..(Len(tokens) - 1) :
        /\ IndexMoved(tokens, i, Parser_expr(tokens, i, 0))
        /\ IndexMoved(tokens, i, Parser_term(tokens, i, 0))
        /\ IndexMoved(tokens, i, Parser_factor(tokens, i, 0))
        /\ IndexMoved(tokens, i, Parser_signed_power(tokens, i, 0))
        /\ IndexMoved(tokens, i, Parser_power(tokens, i, 0))
        /\ IndexMoved(tokens, i, Parser_primary(tokens, i, 0))

\* Parser.parse returns with the index on the EOF token
StopsOnEOF(tokens, r) == r.ok => r.i = Len(tokens) - 1

TokensInBounds(t) ==
    t.ok => /\ OneEOFLast(t.tokens)
            /\ MethodsStayInBounds(t.tokens)
            /\ StopsOnEOF(t.tokens, Parser_parse(t.tokens, CallerDepth + 3))

TextInBounds(cleaned) ==
    cleaned # None => (ScanAdvances(cleaned.str) /\ TokensInBounds(tokenize(cleaned.str)))

\* C28: tokenizing and parsing make progress and stay in bounds: every
\* match of the tokenizer ends after the position it started at, the token
\* list has exactly one EOF token and that token is last, and each grammar
\* method of the parser leaves the index further on than it found it and
\* never past the EOF token; Parser.parse stops with the index on EOF.
C28_ProgressInBounds ==
    (Called /\ ~Evaluated) => TextInBounds(sanitize_expression(expr))

\* floor( N ) with blanks between the tokens: the scan skips them, five
\* tokens and EOF come out, and the parse stops at index 4
C28_Witness ==
    /\ pc = "parsed"
    /\ expr = <<"F", "l", "o", "o", "r", "(", " ", "N", " ", ")", ".">>
    /\ formula # None
    /\ TOKEN_REGEX_match(formula.expression, 7).end = 9
    /\ Len(tokenize(formula.expression).tokens) = 5
    /\ Parser_parse(tokenize(formula.expression).tokens, CallerDepth + 3).i = 4

\* the formula parse_expression made of expr, as it was when it returned
Constructed == build_formula(seq_id_arg, source_arg, expr, CallerDepth + 1).ret

\* what thread t holds is what evaluate gives on the formula f alone
AloneIn(f, t) ==
    /\ threads[t].pc = "running" => threads[t].node = f.node
    /\ threads[t].pc = "returned" => threads[t].result = evaluate(f, threads[t].n)

Fetched == call_args # None
Reported == Fetched /\ report # None

\* the commands the injected runner was called with
RunnerCommands ==
    {invoked[k].cmd : k \in {j \in 1..Len(invoked) : invoked[j].fn = "runner"}}

\* the files a list of paths names
Listed(paths) == {paths[k] : k \in 1..Len(paths)}

\* C22 as stated: whenever prepare_data generates the missing core files
\* and the missing formulas-loda.txt (force False, dry_run False,
\* run_if_missing True), the injected runner is invoked with
\* ['loda', 'update'] and with ['loda', 'export-formulas'], whichever
\* exporter and downloader are injected.
C22_RunnerGetsBothCommands ==
    ( /\ Reported
      /\ ~call_args.force /\ ~call_args.dry_run /\ call_args.run_if_missing
      /\ \E p \in CoreFiles : ~exists(before, p)
      /\ ~exists(before, formulas_loda) )
    => /\ <<"loda", "update">> \in RunnerCommands
       /\ <<"loda", "export-formulas">> \in RunnerCommands

\* the exporter and the downloader of the call write their destination
WritesDestination(a) ==
    /\ a.downloader = "writing"
    /\ \/ a.export_formulas = "writing"
       \/ a.export_formulas = "default" /\ a.runner = "writing"

\* C23: when names, offsets and stripped exist under loda_home/seqs/oeis
\* and prepare_data is called with run_if_missing True and dry_run False,
\* with an exporter and a downloader that write their destination, then on
\* normal return all five data files exist in data_dir, whichever of them
\* were missing, and report.created lists exactly the files written during
\* the call.
C23_AllFilesAfterReturn ==
    ( /\ Reported
      /\ call_args.run_if_missing /\ ~call_args.dry_run
      /\ before.seqs_dir /\ before.seqs = CoreFiles
      /\ WritesDestination(call_args) )
    => /\ disk.files = DataFiles
       /\ report.created = written

\* offsets and both formula files were missing: the call copied the three
\* core files, exported and downloaded, and lists the five files
C23_Witness ==
    /\ Reported
    /\ call_args.run_if_missing /\ ~call_args.dry_run /\ ~call_args.force
    /\ call_args.export_formulas = "default"
    /\ WritesDestination(call_args)
    /\ before.seqs = CoreFiles
    /\ before.files = {"names", "stripped"}
    /\ disk.files = DataFiles
    /\ report.created = <<"names", "offsets", "stripped", formulas_loda, formulas_oeis>>
    /\ written = report.created

\* the call called nothing and wrote nothing, and says so
DidNothing ==
    /\ fetch_exc = ""
    /\ invoked = <<>>
    /\ written = <<>>
    /\ disk = before
    /\ report.created = <<>>
    /\ report.commands = <<>>
    /\ Len(report.skipped) > 0

\* C24: when the five data files all exist in data_dir and force is False,
\* prepare_data invokes neither the runner, the downloader nor the
\* exporter, leaves the files as they are, and returns a report with empty
\* created and commands and a non-empty skipped; so a call with force
\* False that follows a complete call does nothing.
C24_NothingWhenPresent ==
    /\ (Fetched /\ before.files = DataFiles /\ ~call_args.force) => DidNothing
    /\ (Fetched /\ previous = "complete" /\ ~call_args.force) => DidNothing

\* a second call, after a complete one, with whatever flags but force: its
\* three steps are skipped
C24_Witness ==
    /\ Fetched
    /\ previous = "complete"
    /\ ~call_args.force /\ ~call_args.dry_run /\ call_args.run_if_missing
    /\ before.files = DataFiles
    /\ DidNothing
    /\ Len(report.skipped) = 3

\* C25 as stated: with force False, each of the five data files that exists
\* in data_dir before the call is neither overwritten nor regenerated,
\* whichever of the other targets are missing.
C25_PresentFilesUntouched ==
    (Fetched /\ ~call_args.force) =>
        \A p \in DataFiles : exists(before, p) => p \notin Listed(written)

\* C26 as stated: with dry_run True prepare_data invokes neither the
\* runner, the downloader nor the exporter, creates or modifies no file or
\* directory, data_dir included, and returns a report with an empty created
\* list.
C26_DryRunDoesNoWork ==
    (Fetched /\ call_args.dry_run) =>
        /\ invoked = <<>>
        /\ written = <<>>
        /\ disk = before
        /\ report # None => report.created = <<>>

\* the formulas iter_oeis_formulas yields on the lines from the k-th on,
\* entered with current_id cur
RECURSIVE OeisYields(_, _, _)
OeisYields(lines, k, cur) ==
    IF k > Len(lines) THEN <<>>
    ELSE IF oeis_line(cur, lines[k]).out = None
    THEN OeisYields(lines, k + 1, oeis_line(cur, lines[k]).current_id)
    ELSE <<oeis_line(cur, lines[k]).out>>
            \o OeisYields(lines, k + 1, oeis_line(cur, lines[k]).current_id)

\* the line is a header line with a deny-listed id
DeniedHeader(raw_line) ==
    /\ OEIS_HEADER_RE_match(RStripSet(raw_line, {"\n"})) # None
    /\ OEIS_HEADER_RE_match(RStripSet(raw_line, {"\n"})).id \in DENYLIST_OEIS

\* the lines from the k-th on without the deny-listed header lines and
\* without the lines that follow one up to the next header line; denied
\* says that the last header line in front of the k-th was deny-listed
RECURSIVE WithoutDenied(_, _, _)
WithoutDenied(lines, k, denied) ==
    IF k > Len(lines) THEN <<>>
    ELSE IF OEIS_HEADER_RE_match(RStripSet(lines[k], {"\n"})) # None
    THEN IF DeniedHeader(lines[k]) THEN WithoutDenied(lines, k + 1, TRUE)
         ELSE <<lines[k]>> \o WithoutDenied(lines, k + 1, FALSE)
    ELSE IF denied THEN WithoutDenied(lines, k + 1, TRUE)
    ELSE <<lines[k]>> \o WithoutDenied(lines, k + 1, FALSE)

\* the lines the iterator has read
LinesRead == SubSeq(handle, 1, lines_read)

\* C30: the corpus iterators never yield a deny-listed sequence: no formula
\* iter_loda_formulas yields has its sequence_id in DENYLIST_LODA, none
\* iter_oeis_formulas yields has it in DENYLIST_OEIS, and the formulas of
\* iter_oeis_formulas are those of the file without its deny-listed header
\* lines and the lines under them; every formula has the source of its
\* iterator.
C30_NoDenyListedFormula ==
    /\ \A k \in 1..Len(yielded) :
          /\ yielded[k].source = iterator
          /\ iterator = "loda" => yielded[k].sequence_id \notin DENYLIST_LODA
          /\ iterator = "oeis" => yielded[k].sequence_id \notin DENYLIST_OEIS
    /\ iterator = "oeis" => yielded = OeisYields(WithoutDenied(LinesRead, 1, FALSE), 1, NoId)

\* a deny-listed header with a formula, a continuation line under it and
\* the header of another sequence: only the last one gives a formula
C30_Witness ==
    /\ iterator = "oeis"
    /\ handle = <<<<"A", "1", "0", "3", "3", "2", "0", ":", " ", "a", "(", "n", ")", " ", "=", " ", "2", "*", "n">> \o <<"\n">>,
                  <<" ", " ", "a", "(", "n", ")", " ", "=", " ", "n", "*", "n">> \o <<"\n">>,
                  <<"A", "0", "0", "0", "2", "9", "0", ":", " ", "a", "(", "n", ")", " ", "=", " ", "n", "^", "2", ".">> \o <<"\n">>>>
    /\ lines_read = 3
    /\ Len(yielded) = 1
    /\ yielded[1].sequence_id = <<"A", "0", "0", "0", "2", "9", "0">>
    /\ yielded[1].source = "oeis"
    /\ current_id = Id(<<"A", "0", "0", "0", "2", "9", "0">>)

====
